---- MODULE Spec2Model ----
(***************************************************************************)
(* Sensor time-series reconciliation of the weather-station server:        *)
(*   - convert_daily_precip_to_cumulative_rain   (src/import_csv.py)       *)
(*   - detect_and_fix_outliers                   (src/import_csv.py)       *)
(*   - reconstruct_daily_rain       (src/scripts/daily_rain_corrector.py)  *)
(*                                                                         *)
(* Numbers.  Every quantity (mm, km/h, mm/h) is an integer number of       *)
(* hundredths: 5.5 km/h is 550.  The CSV cells hold decimal numerals with  *)
(* at most two fractional digits, so parse_decimal is exact on them;       *)
(* round(x, 2) is the identity on sums and differences of such values and  *)
(* is a real rounding only after a division (Round2).  Timestamps of CSV   *)
(* rows are whole minutes (the format "%I:%M %p" has no seconds).          *)
(*                                                                         *)
(* Cells.  A CSV cell is a text.  The model keeps the number the text      *)
(* denotes and how the text was produced: "csv" is the text of the input   *)
(* file (decimal comma or dot), "py" is the text str() makes of a Python   *)
(* float, "bad" is a text float() rejects.  Two cells are the same text    *)
(* only if both parts agree, so a cell that was parsed and written back    *)
(* is not mistaken for an untouched one.                                   *)
(***************************************************************************)
EXTENDS Integers, Sequences, FiniteSets, TLC

\* ------------------------------------------------------------------------
\* Program constants (hundredths)
\* ------------------------------------------------------------------------
MAX_WIND_GUST_KMH == 8000
MAX_PRECIP_DELTA_MM == 500
MAX_PRECIP_RATE_MMH == 6000
TREND_WINDOW == 5
SPIKE_MULTIPLIER == 6
CALM_THRESHOLD == 1000
NUM_PREV_VALUES == 5

\* ------------------------------------------------------------------------
\* Bounds of the model
\* ------------------------------------------------------------------------
\* longest batch of the exhaustive families of input batches
MaxRows == 3
\* most points of a stored series of the day
MaxPoints == 3
\* most runs of reconstruct_daily_rain for the day
MaxRuns == 2

\* ------------------------------------------------------------------------
\* Values and cells
\* ------------------------------------------------------------------------
None == <<>>
Some(x) == <<x>>

Max(a, b) == IF a >= b THEN a ELSE b
Min(a, b) == IF a <= b THEN a ELSE b
Abs(a) == IF a >= 0 THEN a ELSE 0 - a

RECURSIVE SumSeq(_)
SumSeq(s) == IF s = <<>> THEN 0 ELSE Head(s) + SumSeq(Tail(s))

\* round(num / den, 2) for a value num/den in hundredths, den > 0: the
\* nearest integer, a tie going to the even neighbour.
Round2(num, den) ==
  LET q == num \div den
      r == num % den
  IN  IF 2 * r < den THEN q
      ELSE IF 2 * r > den THEN q + 1
      ELSE IF q % 2 = 0 THEN q ELSE q + 1

Csv(x) == [v |-> x, fmt |-> "csv"]
BadCell == [v |-> 0, fmt |-> "bad"]
\* str(x) of a float x
Str(x) == [v |-> x, fmt |-> "py"]

\* a cell csv.DictReader filled with None because the line had fewer fields
\* than the header
MissingCell == [v |-> 0, fmt |-> "none"]

\* parse_decimal / parse_timestamp raise ValueError on a "bad" cell;
\* parse_decimal(None) raises TypeError at line 60 (',' in value)
Parsable(c) == c.fmt \notin {"bad", "none"}
TypeFault(c) == c.fmt = "none"
parse_decimal(c) == c.v
parse_timestamp(c) == c.v

\* A CSV row: the columns the reconciliation passes read or write.  Date and
\* Time together are the column Time (minutes); the other columns of the file
\* are copied by row.copy() and never read by the two passes.
MkRow(t, speed, gust, accum, rate) ==
  [Time |-> t, Speed_kmh |-> speed, Gust_kmh |-> gust,
   Precip_Accum_mm |-> accum, Precip_Rate_mm |-> rate]

VARIABLES
  pc,      \* where the modelled run stands
  conv,    \* locals of convert_daily_precip_to_cumulative_rain
  det,     \* locals of detect_and_fix_outliers (the running call)
  ret1,    \* what the first call of detect_and_fix_outliers returned
  rain,    \* the store and the last result of reconstruct_daily_rain
  imp      \* locals of import_csv after the two passes, and the sink

vars == <<pc, conv, det, ret1, rain, imp>>

\* ------------------------------------------------------------------------
\* convert_daily_precip_to_cumulative_rain
\* ------------------------------------------------------------------------
ConvInit(rows) ==
  [rows |-> rows, k |-> 1, converted_rows |-> <<>>,
   running_offset |-> 0, prev_accum |-> None, daily_max |-> 0]

\* lines 169-174: a reading below the previous parsed reading is a reset
IsReset(prev_accum, current_accum) ==
  prev_accum # None /\ current_accum < prev_accum[1]

\* a reset that forgets to carry the finished day over
OffsetAfter_Dropped(running_offset, daily_max, reset) == running_offset

\* lines 170-173: the offset grows by the running maximum at a reset
OffsetAfter(running_offset, daily_max, reset) ==
  IF reset THEN running_offset + daily_max ELSE running_offset

\* a running maximum that only the first row and a reset set
MaxAfter_NeverRaised(prev_accum, daily_max, current_accum, reset) ==
  IF prev_accum = None \/ reset THEN current_accum ELSE daily_max

\* a running maximum that is never restarted at a reset
MaxAfter_Sticky(prev_accum, daily_max, current_accum, reset) ==
  IF prev_accum = None THEN current_accum ELSE Max(daily_max, current_accum)

\* lines 169-180: the running maximum restarts at the first row and at a reset
MaxAfter(prev_accum, daily_max, current_accum, reset) ==
  IF prev_accum = None THEN current_accum
  ELSE IF reset THEN current_accum
  ELSE Max(daily_max, current_accum)

\* a loop that writes the converted cell into the input row as well
ConvertRow_InPlace(st, row) ==
  IF ~Parsable(row.Precip_Accum_mm)
  THEN [st EXCEPT !.converted_rows = Append(@, row), !.k = @ + 1]
  ELSE
    LET current_accum == parse_decimal(row.Precip_Accum_mm)
        reset == IsReset(st.prev_accum, current_accum)
        running_offset == OffsetAfter(st.running_offset, st.daily_max, reset)
        daily_max == MaxAfter(st.prev_accum, st.daily_max, current_accum, reset)
        cumulative_rain == running_offset + current_accum
        converted_row ==
          [row EXCEPT !.Precip_Accum_mm = Str(Round2(cumulative_rain, 1))]
    IN [st EXCEPT !.running_offset = running_offset,
                  !.daily_max = daily_max,
                  !.prev_accum = Some(current_accum),
                  !.converted_rows = Append(@, converted_row),
                  !.rows = [@ EXCEPT ![st.k] = converted_row],
                  !.k = @ + 1]

\* one iteration of the loop over rows (lines 160-187)
ConvertRow(st, row) ==
  IF ~Parsable(row.Precip_Accum_mm)
  THEN [st EXCEPT !.converted_rows = Append(@, row), !.k = @ + 1]
  ELSE
    LET current_accum == parse_decimal(row.Precip_Accum_mm)
        reset == IsReset(st.prev_accum, current_accum)
        running_offset == OffsetAfter(st.running_offset, st.daily_max, reset)
        daily_max == MaxAfter(st.prev_accum, st.daily_max, current_accum, reset)
        cumulative_rain == running_offset + current_accum
        converted_row ==
          [row EXCEPT !.Precip_Accum_mm = Str(Round2(cumulative_rain, 1))]
    IN [st EXCEPT !.running_offset = running_offset,
                  !.daily_max = daily_max,
                  !.prev_accum = Some(current_accum),
                  !.converted_rows = Append(@, converted_row),
                  !.k = @ + 1]

\* lines 163-167 catch ValueError and KeyError only: the TypeError of a
\* missing cell leaves the function
ConvertRaises(row) == TypeFault(row.Precip_Accum_mm)

ConvertStep ==
  /\ pc = "convert"
  /\ conv.k <= Len(conv.rows)
  /\ ~ConvertRaises(conv.rows[conv.k])
  /\ conv' = ConvertRow(conv, conv.rows[conv.k])
  /\ UNCHANGED <<pc, det, ret1, rain, imp>>

\* the exception propagates through import_csv (line 544) to its caller
ConvertRaise ==
  /\ pc = "convert"
  /\ conv.k <= Len(conv.rows)
  /\ ConvertRaises(conv.rows[conv.k])
  /\ pc' = "convert_raised"
  /\ UNCHANGED <<conv, det, ret1, rain, imp>>

\* line 189: return converted_rows
ConvertReturn ==
  /\ pc = "convert"
  /\ conv.k > Len(conv.rows)
  /\ pc' = "converted"
  /\ UNCHANGED <<conv, det, ret1, rain, imp>>

\* ------------------------------------------------------------------------
\* detect_and_fix_outliers
\* ------------------------------------------------------------------------
\* lines 201-215.  i is the 0-based loop index of the source; rows[i + 1] is
\* the row it names.  gust_flagged and accum_flagged are history: the indices
\* i at which is_gust_outlier (line 275) and is_outlier (line 352) were True.
DetInit(rows, show_fixes) ==
  [rows |-> rows, show_fixes |-> show_fixes, i |-> 0,
   fixed_rows |-> <<>>,
   stats |-> [wind_gust_outliers |-> 0, precip_accum_outliers |-> 0,
              precip_rate_recalculated |-> 0],
   fixes |-> <<>>,
   prev_accum_original |-> None, prev_accum_corrected |-> None,
   prev_time |-> None, recent_deltas |-> <<>>,
   gust_flagged |-> {}, accum_flagged |-> {}]

\* lines 221-229: the five cells the pass parses
RowParses(row) ==
  /\ Parsable(row.Speed_kmh)
  /\ Parsable(row.Gust_kmh)
  /\ Parsable(row.Precip_Accum_mm)
  /\ Parsable(row.Precip_Rate_mm)
  /\ Parsable(row.Time)

\* a cell that parses to a calm gust (lines 251-252, 261-262, 284-285)
IsCalmCell(c) == Parsable(c) /\ parse_decimal(c) < CALM_THRESHOLD

\* a ceiling that flags whatever the average wind is
GustAboveCeiling_AnyWind(wind_avg, wind_gust) == wind_gust > MAX_WIND_GUST_KMH

\* lines 238-240: above the ceiling with low or much smaller average wind
GustAboveCeiling(wind_avg, wind_gust) ==
  /\ wind_gust > MAX_WIND_GUST_KMH
  /\ (wind_avg < 100 \/ wind_gust > wind_avg * 10)

\* lines 249-256: the nearest calm gust among the up to 5 input rows before i
CalmBefore(rows, i) ==
  LET J == {j \in 1..Min(5, i) : IsCalmCell(rows[i - j + 1].Gust_kmh)}
  IN  IF J = {} THEN None
      ELSE LET j == CHOOSE x \in J : \A y \in J : x <= y
           IN  Some(parse_decimal(rows[i - j + 1].Gust_kmh))

\* lines 259-266: the nearest calm gust among the up to 5 input rows after i
CalmAfter(rows, i) ==
  LET J == {j \in 1..Min(5, Len(rows) - i - 1) : IsCalmCell(rows[i + j + 1].Gust_kmh)}
  IN  IF J = {} THEN None
      ELSE LET j == CHOOSE x \in J : \A y \in J : x <= y
           IN  Some(parse_decimal(rows[i + j + 1].Gust_kmh))

\* lines 243-273: calm_avg = (prev_calm + next_calm) / 2; the gust is a spike
\* when wind_gust > calm_avg * 5 and calm_avg < 5.0
GustSpike(rows, i, wind_gust) ==
  /\ wind_gust > 1500
  /\ CalmBefore(rows, i) # None
  /\ CalmAfter(rows, i) # None
  /\ LET twice_calm_avg == CalmBefore(rows, i)[1] + CalmAfter(rows, i)[1]
     IN  wind_gust * 2 > twice_calm_avg * 5 /\ twice_calm_avg < 1000

\* lines 235-273
IsGustOutlier(rows, i, wind_avg, wind_gust) ==
  GustAboveCeiling(wind_avg, wind_gust) \/ GustSpike(rows, i, wind_gust)

\* a scan that takes every calm gust of the rows it looks at
RECURSIVE CollectCalm_NoCap(_, _, _, _)
CollectCalm_NoCap(fixed_rows, i, j, acc) ==
  IF j > Min(10, i) THEN acc
  ELSE LET c == fixed_rows[i - j + 1].Gust_kmh
       IN  IF IsCalmCell(c)
           THEN CollectCalm_NoCap(fixed_rows, i, j + 1, Append(acc, parse_decimal(c)))
           ELSE CollectCalm_NoCap(fixed_rows, i, j + 1, acc)

\* lines 278-290: the first NUM_PREV_VALUES calm gusts among the up to 10
\* already corrected rows before i, nearest first
RECURSIVE CollectCalm(_, _, _, _)
CollectCalm(fixed_rows, i, j, acc) ==
  IF j > Min(10, i) \/ Len(acc) >= NUM_PREV_VALUES THEN acc
  ELSE LET c == fixed_rows[i - j + 1].Gust_kmh
       IN  IF IsCalmCell(c)
           THEN CollectCalm(fixed_rows, i, j + 1, Append(acc, parse_decimal(c)))
           ELSE CollectCalm(fixed_rows, i, j + 1, acc)

PrevValidGusts(fixed_rows, i) == CollectCalm(fixed_rows, i, 1, <<>>)

\* a replacement that always takes the average wind speed
NewGust_Fallback(fixed_rows, i, wind_avg) == wind_avg

\* lines 292-296
NewGust(fixed_rows, i, wind_avg) ==
  LET prev_valid_gusts == PrevValidGusts(fixed_rows, i)
  IN  IF prev_valid_gusts # <<>>
      THEN Round2(SumSeq(prev_valid_gusts), Len(prev_valid_gusts))
      ELSE wind_avg

\* a pass that writes every parsed gust back, flagged or not
GustCell_Rewritten(row, is_gust_outlier, new_gust) ==
  IF is_gust_outlier THEN Str(new_gust) ELSE Str(parse_decimal(row.Gust_kmh))

\* lines 275, 298: the gust cell of the output row
GustCell(row, is_gust_outlier, new_gust) ==
  IF is_gust_outlier THEN Str(new_gust) ELSE row.Gust_kmh

PositiveDeltas(recent_deltas) == SelectSeq(recent_deltas, LAMBDA d : d > 0)

\* a rule that lets the trend decide however short the history is
IsAccumOutlier_TrendOnly(original_delta, time_delta_minutes, recent_deltas) ==
  /\ original_delta * 5 > MAX_PRECIP_DELTA_MM * time_delta_minutes
  /\ LET positive_deltas == PositiveDeltas(recent_deltas)
     IN  IF positive_deltas # <<>>
         THEN original_delta * Len(positive_deltas)
                > SumSeq(positive_deltas) * SPIKE_MULTIPLIER
         ELSE TRUE

\* lines 330-350: max_delta_for_interval = MAX_PRECIP_DELTA_MM * (minutes / 5);
\* recent_avg = sum(positive_deltas) / len(positive_deltas)
IsAccumOutlier(original_delta, time_delta_minutes, recent_deltas) ==
  /\ original_delta * 5 > MAX_PRECIP_DELTA_MM * time_delta_minutes
  /\ IF Len(recent_deltas) >= 2
     THEN LET positive_deltas == PositiveDeltas(recent_deltas)
          IN  IF positive_deltas # <<>>
              THEN original_delta * Len(positive_deltas)
                     > SumSeq(positive_deltas) * SPIKE_MULTIPLIER
              ELSE TRUE
     ELSE TRUE

\* a correction that holds the corrected level when the counter falls
CorrectedAccum_HoldsOnReset(precip_accum, prev_accum_corrected, original_delta, is_outlier) ==
  IF is_outlier THEN prev_accum_corrected
  ELSE IF original_delta >= 0 THEN prev_accum_corrected + original_delta
  ELSE prev_accum_corrected

\* a correction that caps the delta of a flagged row at the ceiling
CorrectedAccum_Capped(precip_accum, prev_accum_corrected, original_delta, is_outlier) ==
  IF is_outlier THEN prev_accum_corrected + MAX_PRECIP_DELTA_MM
  ELSE IF original_delta >= 0 THEN prev_accum_corrected + original_delta
  ELSE precip_accum

\* lines 352-387: the corrected accumulation of a row with positive elapsed time
CorrectedAccum(precip_accum, prev_accum_corrected, original_delta, is_outlier) ==
  IF is_outlier THEN prev_accum_corrected
  ELSE IF original_delta >= 0 THEN prev_accum_corrected + original_delta
  ELSE precip_accum

\* a window that takes the delta of a flagged row too
DeltasAfter_KeepsSpike(recent_deltas, original_delta, is_outlier) ==
  LET d1 == IF original_delta >= 0 THEN Append(recent_deltas, original_delta)
            ELSE <<>>
  IN  IF Len(d1) > TREND_WINDOW THEN Tail(d1) ELSE d1

\* a window that drops its newest entry when it is full
DeltasAfter_DropNewest(recent_deltas, original_delta, is_outlier) ==
  LET d1 == IF is_outlier THEN recent_deltas
            ELSE IF original_delta >= 0 THEN Append(recent_deltas, original_delta)
            ELSE <<>>
  IN  IF Len(d1) > TREND_WINDOW THEN SubSeq(d1, 1, TREND_WINDOW) ELSE d1

\* lines 374-391: the trend window after a row with positive elapsed time
DeltasAfter(recent_deltas, original_delta, is_outlier) ==
  LET d1 == IF is_outlier THEN recent_deltas
            ELSE IF original_delta >= 0 THEN Append(recent_deltas, original_delta)
            ELSE <<>>
  IN  IF Len(d1) > TREND_WINDOW THEN Tail(d1) ELSE d1

\* lines 396-401: corrected_delta / time_delta_hours, clamped to [0, 60]
CalculatedRate(corrected_delta, time_delta_minutes) ==
  Max(0, Min(Round2(corrected_delta * 60, time_delta_minutes), MAX_PRECIP_RATE_MMH))

\* a pass that recomputes the rate of every row it has a delta for
RateCell_Always(row, timed, is_outlier, calculated_rate) ==
  IF timed THEN Str(calculated_rate) ELSE row.Precip_Rate_mm

\* a pass that writes a rate of 0 on a row with no elapsed time
RateCell_ZeroOnSkip(row, timed, is_outlier, calculated_rate) ==
  IF is_outlier THEN Str(calculated_rate)
  ELSE IF timed THEN row.Precip_Rate_mm ELSE Str(0)

\* lines 395-402: the rate cell of the output row
RateCell(row, timed, is_outlier, calculated_rate) ==
  IF is_outlier THEN Str(calculated_rate) ELSE row.Precip_Rate_mm

\* a tracker that only follows the rows the correction ran on
TrackCorrected_TimedOnly(prev_accum_corrected, timed, accum_cell) ==
  IF timed \/ prev_accum_corrected = None THEN Some(parse_decimal(accum_cell))
  ELSE prev_accum_corrected

\* line 417: prev_accum_corrected = parse_decimal(fixed_row['Precip_Accum_mm'])
TrackCorrected(prev_accum_corrected, timed, accum_cell) ==
  Some(parse_decimal(accum_cell))

\* an event that is always filed as a gust correction
Event_AsGust(type, i, original, corrected) ==
  [type |-> "wind_gust", row |-> i + 2, original |-> original, corrected |-> corrected]

\* an event whose row number leaves out the header line
Event_NoHeader(type, i, original, corrected) ==
  [type |-> type, row |-> i + 1, original |-> original, corrected |-> corrected]

\* lines 301-310, 363-373, 405-413: the fields of an event the claims read
Event(type, i, original, corrected) ==
  [type |-> type, row |-> i + 2, original |-> original, corrected |-> corrected]

\* one iteration of the loop over rows (lines 217-420)
DetectRow(st) ==
  LET i == st.i
      row == st.rows[i + 1]
  IN
  IF ~RowParses(row)
  THEN [st EXCEPT !.fixed_rows = Append(@, row), !.i = @ + 1]
  ELSE
    LET wind_avg == parse_decimal(row.Speed_kmh)
        wind_gust == parse_decimal(row.Gust_kmh)
        precip_accum == parse_decimal(row.Precip_Accum_mm)
        original_rate == parse_decimal(row.Precip_Rate_mm)
        current_time == parse_timestamp(row.Time)
        \* wind gust
        is_gust_outlier == IsGustOutlier(st.rows, i, wind_avg, wind_gust)
        new_gust == NewGust(st.fixed_rows, i, wind_avg)
        gust_fixes ==
          IF is_gust_outlier /\ st.show_fixes
          THEN <<Event("wind_gust", i, wind_gust, new_gust)>> ELSE <<>>
        \* precipitation accumulation
        timed == /\ st.prev_accum_original # None
                 /\ st.prev_time # None
                 /\ current_time - st.prev_time[1] > 0
        original_delta == precip_accum - st.prev_accum_original[1]
        time_delta_minutes == current_time - st.prev_time[1]
        is_outlier ==
          timed /\ IsAccumOutlier(original_delta, time_delta_minutes, st.recent_deltas)
        corrected_accum ==
          IF timed
          THEN CorrectedAccum(precip_accum, st.prev_accum_corrected[1],
                              original_delta, is_outlier)
          ELSE precip_accum
        accum_cell == IF timed THEN Str(Round2(corrected_accum, 1))
                      ELSE row.Precip_Accum_mm
        accum_fixes ==
          IF is_outlier /\ st.show_fixes
          THEN <<Event("precip_accum", i, precip_accum, Round2(corrected_accum, 1))>>
          ELSE <<>>
        \* precipitation rate
        calculated_rate ==
          CalculatedRate(corrected_accum - st.prev_accum_corrected[1], time_delta_minutes)
        rate_fixes ==
          IF is_outlier /\ st.show_fixes /\ Abs(original_rate - calculated_rate) > 10
          THEN <<Event("precip_rate", i, original_rate, calculated_rate)>> ELSE <<>>
        fixed_row ==
          [row EXCEPT !.Gust_kmh = GustCell(row, is_gust_outlier, new_gust),
                      !.Precip_Accum_mm = accum_cell,
                      !.Precip_Rate_mm = RateCell(row, timed, is_outlier, calculated_rate)]
    IN [st EXCEPT
          !.i = @ + 1,
          !.fixed_rows = Append(@, fixed_row),
          !.stats = [wind_gust_outliers |-> @.wind_gust_outliers
                                             + (IF is_gust_outlier THEN 1 ELSE 0),
                     precip_accum_outliers |-> @.precip_accum_outliers
                                             + (IF is_outlier THEN 1 ELSE 0),
                     precip_rate_recalculated |-> @.precip_rate_recalculated
                                             + (IF is_outlier THEN 1 ELSE 0)],
          !.fixes = @ \o gust_fixes \o accum_fixes \o rate_fixes,
          !.prev_accum_original = Some(precip_accum),
          !.prev_accum_corrected = TrackCorrected(@, timed, accum_cell),
          !.prev_time = Some(current_time),
          !.recent_deltas = IF timed THEN DeltasAfter(@, original_delta, is_outlier)
                            ELSE @,
          !.gust_flagged = IF is_gust_outlier THEN @ \cup {i} ELSE @,
          !.accum_flagged = IF is_outlier THEN @ \cup {i} ELSE @]

\* the loop run to its end (lines 217-420)
RECURSIVE DetectAll(_)
DetectAll(st) == IF st.i >= Len(st.rows) THEN st ELSE DetectAll(DetectRow(st))

\* what a call returns (line 422), with the history of the pass
Returned(st) ==
  [rows |-> st.rows, fixed_rows |-> st.fixed_rows, stats |-> st.stats,
   fixes |-> st.fixes, gust_flagged |-> st.gust_flagged,
   accum_flagged |-> st.accum_flagged]

\* lines 221-229 parse Speed_kmh, Gust_kmh, Precip_Accum_mm, Precip_Rate_mm
\* in this order and catch ValueError and KeyError only: the row raises
\* TypeError when the first cell that does not parse is a missing one
DetectRaises(row) ==
  LET cells == <<row.Speed_kmh, row.Gust_kmh, row.Precip_Accum_mm, row.Precip_Rate_mm>>
  IN  \E k \in 1..4 : TypeFault(cells[k]) /\ \A q \in 1..(k - 1) : Parsable(cells[q])

DetectStep ==
  /\ pc \in {"detect", "detect2"}
  /\ det.i < Len(det.rows)
  /\ ~DetectRaises(det.rows[det.i + 1])
  /\ det' = DetectRow(det)
  /\ UNCHANGED <<pc, conv, ret1, rain, imp>>

\* the exception propagates through import_csv (line 548) to its caller
DetectRaise ==
  /\ pc \in {"detect", "detect2"}
  /\ det.i < Len(det.rows)
  /\ DetectRaises(det.rows[det.i + 1])
  /\ pc' = "detect_raised"
  /\ UNCHANGED <<conv, det, ret1, rain, imp>>

\* line 422: return fixed_rows, stats, fixes
DetectReturn ==
  /\ pc \in {"detect", "detect2"}
  /\ det.i >= Len(det.rows)
  /\ pc' = IF pc = "detect" THEN "detected" ELSE "detected2"
  /\ ret1' = IF pc = "detect" THEN Returned(det) ELSE ret1
  /\ UNCHANGED <<conv, det, rain, imp>>

\* the pass run a second time, on the rows the first call returned
DetectAgain ==
  /\ pc = "detected"
  /\ det' = DetInit(ret1.fixed_rows, det.show_fixes)
  /\ pc' = "detect2"
  /\ UNCHANGED <<conv, ret1, rain, imp>>

\* import_csv, lines 544-548: the converted rows go to the outlier pass
ImportCallDetect ==
  /\ pc = "converted"
  /\ det' = DetInit(conv.converted_rows, det.show_fixes)
  /\ pc' = "detect"
  /\ UNCHANGED <<conv, ret1, rain, imp>>

\* ------------------------------------------------------------------------
\* import_csv after the two passes: parse, filter, write (lines 590-691)
\* ------------------------------------------------------------------------
\* The sink is the set of timestamps of the measurement it holds; sink0 is
\* history, the sink when import_csv was called.  written is history too: the
\* points of the write calls that succeeded, in order.  query tells how the
\* existence query went: "none" (not made), "ok" or "failed".
ImpIdle ==
  [overwrite |-> FALSE, dry_run |-> FALSE, data_points |-> <<>>,
   new_data_points |-> <<>>, query |-> "none", i |-> 0, total_written |-> 0,
   written |-> <<>>, sink |-> {}, sink0 |-> {}]

\* the sinks an import meets: empty, holding some of the batch's timestamps,
\* holding a timestamp outside the batch's range
Sinks == {{}, {5}, {10, 15}, {5, 10, 60}}

\* batch_size of the write loop; the source writes 1000 points a call, the
\* model 2, so that batches of the modelled lengths take more than one call
batch_size == 2

\* parse_csv_row (lines 425-486) reads the timestamp, the wind columns and
\* Precip_Accum_mm of the columns modelled, and not Precip_Rate_mm; line 596
\* catches every Exception it raises
parse_csv_row_succeeds(row) ==
  /\ Parsable(row.Time)
  /\ Parsable(row.Speed_kmh)
  /\ Parsable(row.Gust_kmh)
  /\ Parsable(row.Precip_Accum_mm)

parse_csv_row(row) ==
  [time |-> parse_timestamp(row.Time), rain_mm |-> parse_decimal(row.Precip_Accum_mm)]

\* lines 591-599
RECURSIVE DataPoints(_)
DataPoints(fixed_rows) ==
  IF fixed_rows = <<>> THEN <<>>
  ELSE (IF parse_csv_row_succeeds(Head(fixed_rows))
        THEN <<parse_csv_row(Head(fixed_rows))>> ELSE <<>>)
       \o DataPoints(Tail(fixed_rows))

TimesOf(points) == {points[k].time : k \in 1..Len(points)}

\* a query whose range leaves out its first timestamp
get_existing_timestamps_OpenStart(sink, start_ns, end_ns, answered) ==
  IF answered THEN {t \in sink : start_ns < t /\ t < end_ns} ELSE {}

\* lines 488-519: the timestamps of the sink in [start_ns, end_ns), or the
\* empty set when the query raises
get_existing_timestamps(sink, start_ns, end_ns, answered) ==
  IF answered THEN {t \in sink : start_ns <= t /\ t < end_ns} ELSE {}

\* line 633
NewDataPoints(data_points, existing_timestamps) ==
  SelectSeq(data_points, LAMBDA dp : dp.time \notin existing_timestamps)

\* a slice that runs to the end of the list
Batch_ToEnd(new_data_points, i) ==
  SubSeq(new_data_points, i + 1, Len(new_data_points))

\* line 662: new_data_points[i:i+batch_size]
Batch(new_data_points, i) ==
  SubSeq(new_data_points, i + 1, Min(i + batch_size, Len(new_data_points)))

\* an import that starts on the rows corrected so far, while the outlier
\* pass is still running
ImportParse_Early ==
  /\ pc = "detect"
  /\ det.i >= 1
  /\ \E overwrite \in BOOLEAN, dry_run \in BOOLEAN, sink \in Sinks :
       imp' = [ImpIdle EXCEPT !.overwrite = overwrite, !.dry_run = dry_run,
                              !.sink = sink, !.sink0 = sink,
                              !.data_points = DataPoints(det.fixed_rows)]
  /\ pc' = IF DataPoints(det.fixed_rows) = <<>> THEN "done" ELSE "parsed"
  /\ UNCHANGED <<conv, det, ret1, rain>>

\* lines 590-616: the fixed rows become data points; with none, import_csv
\* returns.  The flags of the call and the sink it meets are drawn here,
\* where the model first reads them.
ImportParse ==
  /\ pc = "detected"
  /\ \E overwrite \in BOOLEAN, dry_run \in BOOLEAN, sink \in Sinks :
       imp' = [ImpIdle EXCEPT !.overwrite = overwrite, !.dry_run = dry_run,
                              !.sink = sink, !.sink0 = sink,
                              !.data_points = DataPoints(ret1.fixed_rows)]
  /\ pc' = IF DataPoints(ret1.fixed_rows) = <<>> THEN "done" ELSE "parsed"
  /\ UNCHANGED <<conv, det, ret1, rain>>

\* lines 607-653: the range, the existence query unless overwrite is set,
\* the filter, and the return of a dry run
ImportFilter ==
  /\ pc = "parsed"
  /\ LET timestamps == TimesOf(imp.data_points)
         min_ts == CHOOSE t \in timestamps : \A x \in timestamps : t <= x
         max_ts == CHOOSE t \in timestamps : \A x \in timestamps : x <= t
     IN  IF imp.overwrite
         THEN imp' = [imp EXCEPT !.new_data_points = imp.data_points]
         ELSE \E answered \in BOOLEAN :
                imp' = [imp EXCEPT
                          !.query = IF answered THEN "ok" ELSE "failed",
                          !.new_data_points =
                            NewDataPoints(imp.data_points,
                              get_existing_timestamps(imp.sink, min_ts, max_ts + 1,
                                                      answered))]
  /\ pc' = IF imp.dry_run THEN "done" ELSE "writing"
  /\ UNCHANGED <<conv, det, ret1, rain>>

\* lines 661-685: one batch is written
ImportWriteBatch ==
  /\ pc = "writing"
  /\ imp.i < Len(imp.new_data_points)
  /\ LET batch == Batch(imp.new_data_points, imp.i)
     IN  imp' = [imp EXCEPT !.sink = @ \cup TimesOf(batch),
                            !.written = @ \o batch,
                            !.total_written = @ + Len(batch),
                            !.i = @ + batch_size]
  /\ UNCHANGED <<pc, conv, det, ret1, rain>>

\* line 682: write_api.write raises; nothing catches it
ImportWriteRaise ==
  /\ pc = "writing"
  /\ imp.i < Len(imp.new_data_points)
  /\ pc' = "write_raised"
  /\ UNCHANGED <<conv, det, ret1, rain, imp>>

\* lines 687-691
ImportReturn ==
  /\ pc = "writing"
  /\ imp.i >= Len(imp.new_data_points)
  /\ pc' = "done"
  /\ UNCHANGED <<conv, det, ret1, rain, imp>>

\* ------------------------------------------------------------------------
\* reconstruct_daily_rain (src/scripts/daily_rain_corrector.py)
\* ------------------------------------------------------------------------
\* The store holds, for the target day, the series daily_rain_current,
\* rain_mm and precipitation_rate_mm_h of the measurement rtl433.  A series
\* is a sequence of points in time order (the queries sort by _time, lines
\* 59 and 67), one point per timestamp; times are seconds, values hundredths
\* of a mm.  A rate is the fraction num / den mm/h: the source computes
\* (rain_diff / time_diff) * 3600.0 and does not round it.
\* result is what the last run returned, outcome the return it took, writes
\* the number of write_api.write calls so far.
RainInit(daily, truth) ==
  [daily_rain_current |-> daily, rain_mm |-> truth,
   precipitation_rate_mm_h |-> <<>>,
   result |-> None, outcome |-> "none", writes |-> 0, runs |-> 0]

\* a restart that is any decrease at all
RestartsDetected_NoTolerance(daily_rain_points) ==
  \E i \in 2..Len(daily_rain_points) :
    daily_rain_points[i].v < daily_rain_points[i - 1].v

\* lines 102-110: current < previous - 0.5
RestartsDetected(daily_rain_points) ==
  \E i \in 2..Len(daily_rain_points) :
    daily_rain_points[i].v < daily_rain_points[i - 1].v - 50

\* a scan that replaces its choice on an equal distance too
ClosestRainMm_LastOnTie(rain_mm_points, current_time) ==
  LET dist(k) == Abs(current_time - rain_mm_points[k].time)
      best == CHOOSE k \in 1..Len(rain_mm_points) :
                /\ \A q \in 1..Len(rain_mm_points) : dist(k) <= dist(q)
                /\ \A q \in (k + 1)..Len(rain_mm_points) : dist(q) > dist(k)
  IN  rain_mm_points[best].v

\* lines 138-145: the rain_mm value nearest in time; the scan runs over the
\* points in time order and replaces its choice only on a strictly smaller
\* distance, so the earliest of the nearest samples is kept
ClosestRainMm(rain_mm_points, current_time) ==
  LET dist(k) == Abs(current_time - rain_mm_points[k].time)
      best == CHOOSE k \in 1..Len(rain_mm_points) :
                /\ \A q \in 1..Len(rain_mm_points) : dist(k) <= dist(q)
                /\ \A q \in 1..(k - 1) : dist(q) > dist(k)
  IN  rain_mm_points[best].v

\* line 149: max(0.0, closest_rain_mm - start_rain_mm)
DailyRainCorrected(rain_mm_points, current_time) ==
  Max(0, ClosestRainMm(rain_mm_points, current_time) - rain_mm_points[1].v)

\* lines 134-157: one corrected point per daily_rain_current point
CorrectedPoints(daily_rain_points, rain_mm_points) ==
  [k \in 1..Len(daily_rain_points) |->
     [time |-> daily_rain_points[k].time,
      v |-> DailyRainCorrected(rain_mm_points, daily_rain_points[k].time)]]

\* a scan whose window starts again at every processed point
RECURSIVE RateScan_Consecutive(_, _)
RateScan_Consecutive(corrected, n) ==
  IF n = 0 THEN [prev_time |-> None, prev_daily_rain |-> 0, precip_points |-> <<>>]
  ELSE
    LET st == RateScan_Consecutive(corrected, n - 1)
        point == corrected[n]
        moved == [st EXCEPT !.prev_time = Some(point.time), !.prev_daily_rain = point.v]
    IN  IF st.prev_time = None THEN moved
        ELSE LET time_diff == point.time - st.prev_time[1]
                 rain_diff == point.v - st.prev_daily_rain
             IN  IF time_diff >= 300
                 THEN [moved EXCEPT
                         !.precip_points =
                           Append(@, [time |-> point.time,
                                      num |-> IF rain_diff >= 0 THEN rain_diff * 3600 ELSE 0,
                                      den |-> time_diff * 100])]
                 ELSE moved

\* a scan that emits the rate of a negative delta as it is
RECURSIVE RateScan_Unfloored(_, _)
RateScan_Unfloored(corrected, n) ==
  IF n = 0 THEN [prev_time |-> None, prev_daily_rain |-> 0, precip_points |-> <<>>]
  ELSE
    LET st == RateScan_Unfloored(corrected, n - 1)
        point == corrected[n]
    IN  IF st.prev_time = None
        THEN [st EXCEPT !.prev_time = Some(point.time), !.prev_daily_rain = point.v]
        ELSE LET time_diff == point.time - st.prev_time[1]
                 rain_diff == point.v - st.prev_daily_rain
             IN  IF time_diff >= 300
                 THEN [prev_time |-> Some(point.time),
                       prev_daily_rain |-> point.v,
                       precip_points |->
                         Append(st.precip_points,
                                [time |-> point.time,
                                 num |-> rain_diff * 3600,
                                 den |-> time_diff * 100])]
                 ELSE st

\* lines 160-187: the rate points of the first n corrected points.  st holds
\* prev_time, prev_daily_rain and the rate points so far.
RECURSIVE RateScan(_, _)
RateScan(corrected, n) ==
  IF n = 0 THEN [prev_time |-> None, prev_daily_rain |-> 0, precip_points |-> <<>>]
  ELSE
    LET st == RateScan(corrected, n - 1)
        point == corrected[n]
    IN  IF st.prev_time = None
        THEN [st EXCEPT !.prev_time = Some(point.time), !.prev_daily_rain = point.v]
        ELSE LET time_diff == point.time - st.prev_time[1]
                 rain_diff == point.v - st.prev_daily_rain
             IN  IF time_diff >= 300
                 THEN [prev_time |-> Some(point.time),
                       prev_daily_rain |-> point.v,
                       precip_points |->
                         Append(st.precip_points,
                                [time |-> point.time,
                                 num |-> IF rain_diff >= 0 THEN rain_diff * 3600 ELSE 0,
                                 den |-> time_diff * 100])]
                 ELSE st

PrecipPoints(corrected) == RateScan(corrected, Len(corrected)).precip_points

\* write_api.write of points into a stored series: a point replaces the
\* stored point of its timestamp, a new timestamp is inserted in time order
RECURSIVE Overwrite(_, _)
Overwrite(series, points) ==
  IF points = <<>> THEN series
  ELSE LET p == Head(points)
           before == SelectSeq(series, LAMBDA x : x.time < p.time)
           after == SelectSeq(series, LAMBDA x : x.time > p.time)
       IN  Overwrite(before \o <<p>> \o after, Tail(points))

\* a length check that looks at the rain-today series only
Outcome_DailyOnly(st) ==
  IF st.daily_rain_current = <<>> \/ st.rain_mm = <<>> THEN "missing"
  ELSE IF Len(st.daily_rain_current) < 2 THEN "not_enough"
  ELSE IF ~RestartsDetected(st.daily_rain_current) THEN "no_restart"
  ELSE "rebuilt"

\* the return the run takes (lines 73-75, 95-97, 112-114, 210)
Outcome(st) ==
  IF st.daily_rain_current = <<>> \/ st.rain_mm = <<>> THEN "missing"
  ELSE IF Len(st.daily_rain_current) < 2 \/ Len(st.rain_mm) < 2 THEN "not_enough"
  ELSE IF ~RestartsDetected(st.daily_rain_current) THEN "no_restart"
  ELSE "rebuilt"

\* a run that writes the rate points and leaves rain-today as it found it
Reconstruct_RatesOnly(st) ==
  LET corrected_points == CorrectedPoints(st.daily_rain_current, st.rain_mm)
      precip_points == PrecipPoints(corrected_points)
  IN  IF Outcome(st) = "rebuilt"
      THEN [st EXCEPT
              !.precipitation_rate_mm_h = Overwrite(@, precip_points),
              !.writes = @ + 1,
              !.result = Some(TRUE), !.outcome = "rebuilt", !.runs = @ + 1]
      ELSE [st EXCEPT !.result = Some(TRUE), !.outcome = Outcome(st), !.runs = @ + 1]

\* one run of reconstruct_daily_rain whose queries were answered (lines 44-210)
Reconstruct(st) ==
  LET corrected_points == CorrectedPoints(st.daily_rain_current, st.rain_mm)
      precip_points == PrecipPoints(corrected_points)
  IN  IF Outcome(st) = "rebuilt"
      THEN [st EXCEPT
              !.daily_rain_current = Overwrite(@, corrected_points),
              !.precipitation_rate_mm_h = Overwrite(@, precip_points),
              !.writes = @ + 1,
              !.result = Some(TRUE), !.outcome = "rebuilt", !.runs = @ + 1]
      ELSE [st EXCEPT !.result = Some(TRUE), !.outcome = Outcome(st), !.runs = @ + 1]

ReconstructRun ==
  /\ pc = "rain"
  /\ rain.runs < MaxRuns
  /\ rain' = Reconstruct(rain)
  /\ UNCHANGED <<pc, conv, det, ret1, imp>>

\* lines 36-38 and 212-216: the environment is incomplete or a query raises;
\* the run returns False before any write
ReconstructFails ==
  /\ pc = "rain"
  /\ rain.runs < MaxRuns
  /\ rain' = [rain EXCEPT !.result = Some(FALSE), !.outcome = "failed", !.runs = @ + 1]
  /\ UNCHANGED <<pc, conv, det, ret1, imp>>

\* ------------------------------------------------------------------------
\* Input batches of the conversion: raw daily accumulation readings
\* ------------------------------------------------------------------------
RECURSIVE SeqsUpTo(_, _)
SeqsUpTo(S, n) ==
  IF n = 0 THEN {<<>>}
  ELSE LET P == SeqsUpTo(S, n - 1)
       IN  P \cup {Append(s, x) : s \in {p \in P : Len(p) = n - 1}, x \in S}

AccumRow(a) == MkRow(Csv(0), Csv(400), Csv(500), a, Csv(0))

RawAccumValues == {0, 300, 500, 1000, 1200, 1500}
RawAccumCells == {Csv(x) : x \in RawAccumValues} \cup {BadCell}

\* the scenario of the specification: 10.0, 12.0, 15.0, 3.0, 5.0
ScenarioAccum == <<1000, 1200, 1500, 300, 500>>

ConvertBatches ==
  {[j \in 1..Len(s) |-> AccumRow(s[j])] : s \in SeqsUpTo(RawAccumCells, MaxRows + 1)}
  \cup {[j \in 1..5 |-> AccumRow(Csv(ScenarioAccum[j]))]}

DetIdle == DetInit(<<>>, FALSE)
RetNone == Returned(DetIdle)
RainIdle == RainInit(<<>>, <<>>)

InitConvert ==
  /\ pc = "convert"
  /\ conv \in {ConvInit(b) : b \in ConvertBatches}
  /\ det = DetIdle
  /\ ret1 = RetNone
  /\ imp = ImpIdle
  /\ rain = RainIdle

NextConvert == ConvertStep \/ ConvertReturn

SpecConvert == InitConvert /\ [][NextConvert]_vars

\* ------------------------------------------------------------------------
\* Input batches of the outlier pass
\* ------------------------------------------------------------------------
\* Wind: rows 5 minutes apart with no rain; gust and average wind vary.
GustValues == {300, 1200, 3000, 9500}
GustCells == {Csv(x) : x \in GustValues} \cup {BadCell}
SpeedCells == {Csv(400), Csv(2000)}
WindSteps == SpeedCells \X GustCells

WindBatch(s) ==
  [j \in 1..Len(s) |-> MkRow(Csv(5 * j), s[j][1], s[j][2], Csv(0), Csv(0))]

\* the scenario of the specification: gusts 5, 6, 95, 7, 6, average wind 4
ScenarioGust == <<500, 600, 9500, 700, 600>>
ScenarioWind == [j \in 1..5 |-> <<Csv(400), Csv(ScenarioGust[j])>>]

\* long batches that end in a gust above the ceiling: six calm gusts before
\* it, the farthest one different; and a calm gust 11 rows before it with
\* ten gusts that are not calm in between
LongGusts ==
  {<<900, 300, 300, 300, 300, 300, 9500>>,
   <<300, 1200, 1200, 1200, 1200, 1200, 1200, 1200, 1200, 1200, 1200, 9500>>}
LongWinds == {[j \in 1..Len(g) |-> <<Csv(400), Csv(g[j])>>] : g \in LongGusts}

\* still air: a gust above the ceiling with an average wind below 1 km/h,
\* then gusts of 95 km/h with an average wind above and below a tenth of it
StillWind ==
  <<<<Csv(0), Csv(8500)>>, <<Csv(1500), Csv(9500)>>, <<Csv(900), Csv(9500)>>>>

WindBatches ==
  {WindBatch(s) : s \in SeqsUpTo(WindSteps, MaxRows)}
  \cup {WindBatch(ScenarioWind)} \cup {WindBatch(s) : s \in LongWinds}
  \cup {WindBatch(StillWind)}

\* Rain: calm rows; the accumulation, the minutes since the previous row and
\* the reported rate vary.  A step is <<minutes since the previous row, cell>>.
AccumValues == {0, 100, 700, 3000}
AccumCells == {Csv(x) : x \in AccumValues} \cup {BadCell}
DeltaT == {0, 5, 10}
RainSteps == DeltaT \X AccumCells
RateCells == {Csv(0), Csv(1200)}

RECURSIVE TimeAt(_, _)
TimeAt(s, j) == IF j = 0 THEN 0 ELSE TimeAt(s, j - 1) + s[j][1]

RainBatch(s, rate) ==
  [j \in 1..Len(s) |-> MkRow(Csv(TimeAt(s, j)), Csv(400), Csv(500), s[j][2], rate)]

\* steady light rain that fills the trend window before the rows under test
TrendPrefixes ==
  {<<<<5, Csv(0)>>, <<5, Csv(100)>>, <<5, Csv(100)>>>>,
   <<<<5, Csv(0)>>, <<5, Csv(100)>>, <<5, Csv(200)>>, <<5, Csv(300)>>,
     <<5, Csv(400)>>, <<5, Csv(500)>>, <<5, Csv(600)>>>>}

\* rain with unequal deltas that fills the window, two spikes in a row and
\* rain after them; and a row whose timestamp lies before the previous one
DirectedRains ==
  {<<<<5, Csv(0)>>, <<5, Csv(300)>>, <<5, Csv(400)>>, <<5, Csv(500)>>,
     <<5, Csv(600)>>, <<5, Csv(700)>>, <<5, Csv(800)>>, <<5, Csv(3000)>>,
     <<5, Csv(6000)>>, <<5, Csv(6100)>>>>,
   <<<<10, Csv(0)>>, <<5, Csv(100)>>, <<-5, Csv(3000)>>, <<5, Csv(3100)>>>>}

RainStepSeqs ==
  {s \in SeqsUpTo(RainSteps, MaxRows) : s = <<>> \/ s[1][1] = 5}
  \cup {p \o s : p \in TrendPrefixes, s \in SeqsUpTo(RainSteps, MaxRows - 1)}
  \cup DirectedRains

RainBatches == {RainBatch(s, r) : s \in RainStepSeqs, r \in RateCells}

\* show_fixes only adds entries to fixes: the pass is run without it on the
\* wind batches and on the rain batches one row shorter
QuietBatches ==
  WindBatches
  \cup {RainBatch(s, r) : s \in {q \in RainStepSeqs : Len(q) < MaxRows}, r \in RateCells}

\* ------------------------------------------------------------------------
\* detect_and_fix_outliers called on a batch, and again on what it returned
\* ------------------------------------------------------------------------
InitDetect ==
  /\ pc = "detect"
  /\ conv = ConvInit(<<>>)
  /\ \E sf \in BOOLEAN :
       det \in {DetInit(b, sf) :
                  b \in IF sf THEN WindBatches \cup RainBatches ELSE QuietBatches}
  /\ ret1 = RetNone
  /\ imp = ImpIdle
  /\ rain = RainIdle

NextDetect == DetectStep \/ DetectReturn \/ DetectAgain

SpecDetect == InitDetect /\ [][NextDetect]_vars

\* ------------------------------------------------------------------------
\* reconstruct_daily_rain run, and run again, on the stored series of a day
\* ------------------------------------------------------------------------
DayTimes == {0, 200, 300, 600}
DailyValues == {0, 50, 100, 160}
TruthValues == {1000, 1050, 1200}

\* the series over the day's sample times with values in V, in time order
RECURSIVE SeriesOver(_, _)
SeriesOver(T, V) ==
  IF T = {} THEN {<<>>}
  ELSE LET t == CHOOSE x \in T : \A y \in T : y <= x
           rest == SeriesOver(T \ {t}, V)
       IN  rest \cup {Append(s, [time |-> t, v |-> x]) : s \in rest, x \in V}

StoredSeries(V) == {s \in SeriesOver(DayTimes, V) : Len(s) <= MaxPoints}

InitRain ==
  /\ pc = "rain"
  /\ conv = ConvInit(<<>>)
  /\ det = DetIdle
  /\ ret1 = RetNone
  /\ imp = ImpIdle
  /\ rain \in {RainInit(d, g) : d \in StoredSeries(DailyValues),
                                g \in StoredSeries(TruthValues)}

NextRain == ReconstructRun \/ ReconstructFails

SpecRain == InitRain /\ [][NextRain]_vars

\* ------------------------------------------------------------------------
\* import_csv run from the rows read to its return
\* ------------------------------------------------------------------------
\* Calm rows 5 minutes apart; the two precipitation cells vary: readings,
\* a cell that is no number, and a cell missing from a short line.
ImportCells ==
  {<<Csv(0), Csv(0)>>, <<Csv(700), Csv(0)>>, <<BadCell, Csv(0)>>,
   <<MissingCell, Csv(0)>>, <<Csv(0), BadCell>>, <<Csv(0), MissingCell>>}

ImportBatch(s) ==
  [j \in 1..Len(s) |-> MkRow(Csv(5 * j), Csv(400), Csv(500), s[j][1], s[j][2])]

ImportBatches == {ImportBatch(s) : s \in SeqsUpTo(ImportCells, MaxRows)}

InitImport ==
  /\ pc = "convert"
  /\ conv \in {ConvInit(b) : b \in ImportBatches}
  /\ det = DetInit(<<>>, FALSE)
  /\ ret1 = RetNone
  /\ imp = ImpIdle
  /\ rain = RainIdle

NextImport ==
  \/ ConvertStep \/ ConvertRaise \/ ConvertReturn
  \/ ImportCallDetect
  \/ DetectStep \/ DetectRaise \/ DetectReturn
  \/ ImportParse \/ ImportFilter
  \/ ImportWriteBatch \/ ImportWriteRaise \/ ImportReturn

SpecImport == InitImport /\ [][NextImport]_vars

\* ------------------------------------------------------------------------
\* import_csv: the conversion followed by the outlier pass
\* ------------------------------------------------------------------------
Init ==
  /\ pc = "convert"
  /\ conv \in {ConvInit(b) : b \in RainBatches}
  /\ det \in {DetInit(<<>>, sf) : sf \in BOOLEAN}
  /\ ret1 = RetNone
  /\ imp = ImpIdle
  /\ rain = RainIdle

Next == ConvertStep \/ ConvertReturn \/ ImportCallDetect \/ DetectStep \/ DetectReturn

Spec == Init /\ [][Next]_vars

\* ========================================================================
\* Claims about convert_daily_precip_to_cumulative_rain (SpecConvert)
\* ========================================================================
\* the raw readings of the rows whose accumulation cell parses, in order
RECURSIVE Readings(_)
Readings(rows) ==
  IF rows = <<>> THEN <<>>
  ELSE IF Parsable(Head(rows).Precip_Accum_mm)
       THEN <<Head(rows).Precip_Accum_mm.v>> \o Readings(Tail(rows))
       ELSE Readings(Tail(rows))

NonDecreasing(s) == \A j \in 2..Len(s) : s[j - 1] <= s[j]

\* positions at which the raw series strictly decreases
ResetsOf(raw) == {j \in 2..Len(raw) : raw[j] < raw[j - 1]}

\* first position of the segment (day) position j lies in
SegStart(raw, j) ==
  LET before == {r \in ResetsOf(raw) : r <= j}
  IN  IF before = {} THEN 1 ELSE CHOOSE r \in before : \A q \in before : q <= r

MaxOver(raw, a, b) == CHOOSE m \in {raw[j] : j \in a..b} : \A j \in a..b : raw[j] <= m

\* sum of the maxima of the segments completed at or before position j
RECURSIVE CompletedMaxSum(_, _)
CompletedMaxSum(raw, j) ==
  IF j <= 1 THEN 0
  ELSE CompletedMaxSum(raw, j - 1)
       + (IF raw[j] < raw[j - 1] THEN MaxOver(raw, SegStart(raw, j - 1), j - 1) ELSE 0)

ConvRaw == Readings(SubSeq(conv.rows, 1, conv.k - 1))
ConvOut == Readings(conv.converted_rows)

\* C1: when the raw readings contain exactly one reset, the returned series
\* is non-decreasing and its last value is the maximum of the readings before
\* the reset plus the last raw reading.
C1_OneResetFinalValue ==
  (pc = "converted" /\ Cardinality(ResetsOf(ConvRaw)) = 1) =>
    LET r == CHOOSE x \in ResetsOf(ConvRaw) : TRUE
        n == Len(ConvRaw)
    IN  /\ Len(ConvOut) = n
        /\ NonDecreasing(ConvOut)
        /\ ConvOut[n] = MaxOver(ConvRaw, 1, r - 1) + ConvRaw[n]

\* a finished conversion of a batch with one reset that is not at the last
\* row, so that the final value is carried offset plus a later reading
C1_Witness ==
  /\ pc = "converted"
  /\ Cardinality(ResetsOf(ConvRaw)) = 1
  /\ \E r \in ResetsOf(ConvRaw) : r > 2 /\ r < Len(ConvRaw)
  /\ ConvOut[Len(ConvOut)] > ConvRaw[Len(ConvRaw)]

\* C2: with any number of resets, after every processed row the emitted
\* series is non-decreasing and each emitted value is the sum of the maxima
\* of the completed segments plus the raw reading; the batch 10, 12, 15, 3, 5
\* is returned as 10, 12, 15, 18, 20.
C2_OffsetPlusCurrent ==
  /\ Len(ConvOut) = Len(ConvRaw)
  /\ NonDecreasing(ConvOut)
  /\ \A j \in 1..Len(ConvRaw) : ConvOut[j] = CompletedMaxSum(ConvRaw, j) + ConvRaw[j]
  /\ (pc = "converted" /\ ConvRaw = ScenarioAccum)
       => ConvOut = <<1000, 1200, 1500, 1800, 2000>>

\* a finished conversion that met two resets, the second day's maximum
\* lying below the first day's
C2_Witness ==
  /\ pc = "converted"
  /\ Cardinality(ResetsOf(ConvRaw)) >= 2
  /\ \E r \in ResetsOf(ConvRaw) : r > 2 /\ ConvRaw[r - 1] < ConvRaw[1]

\* the scenario batch has been converted
C2_ScenarioReached == pc = "converted" /\ ConvRaw = ScenarioAccum

\* ========================================================================
\* Claims about detect_and_fix_outliers (SpecDetect) and the full pass (Spec)
\* ========================================================================
AllParse(rows) == \A j \in 1..Len(rows) : RowParses(rows[j])

\* the first call has returned
FirstReturned == pc \in {"detected", "detect2", "detected2"}

\* some row carries the timestamp of the row before it
RepeatedTime(rows) ==
  \E j \in 2..Len(rows) : rows[j].Time.v = rows[j - 1].Time.v

\* C3: in the full pass over parsable rows with non-negative raw
\* accumulation, the accumulation of the corrected rows is non-decreasing in
\* row order (after every row of the outlier pass).
C3_CorrectedNonDecreasing ==
  (pc \in {"detect", "detected"} /\ AllParse(conv.rows)) =>
    NonDecreasing(Readings(det.fixed_rows))

\* a finished full pass that zeroed a spike, carried a reset over and met a
\* repeated timestamp
C3_Witness ==
  /\ pc = "detected"
  /\ AllParse(conv.rows)
  /\ Len(det.fixed_rows) = Len(conv.rows)
  /\ det.accum_flagged # {}
  /\ ResetsOf(Readings(conv.rows)) # {}
  /\ RepeatedTime(conv.rows)

GustsOf(rows) == [j \in 1..Len(rows) |-> rows[j].Gust_kmh]

IsScenarioWind(rows) == rows = WindBatch(ScenarioWind)

\* C4 as stated: for gusts 5, 6, 95, 7, 6 with average wind 4 exactly the
\* reading at index 2 is flagged and its gust becomes 6.0.
C4_ScenarioMeanOfNeighbours ==
  (FirstReturned /\ IsScenarioWind(ret1.rows)) =>
    /\ ret1.gust_flagged = {2}
    /\ parse_decimal(ret1.fixed_rows[3].Gust_kmh) = 600

\* C4 amended: for gusts 5, 6, 95, 7, 6 with average wind 4 exactly the
\* reading at index 2 is flagged and its gust becomes 5.5, the mean of the
\* calm gusts 6 and 5 before it; the other gusts are returned as they came.
C4_ScenarioMeanOfPredecessors ==
  (FirstReturned /\ IsScenarioWind(ret1.rows)) =>
    /\ ret1.gust_flagged = {2}
    /\ ret1.stats.wind_gust_outliers = 1
    /\ ret1.fixed_rows[3].Gust_kmh = Str(550)
    /\ \A j \in {1, 2, 4, 5} : ret1.fixed_rows[j].Gust_kmh = ret1.rows[j].Gust_kmh

\* the scenario batch has been through the pass
C4_Witness ==
  /\ pc = "detected"
  /\ IsScenarioWind(ret1.rows)
  /\ Len(ret1.fixed_rows) = 5

\* C5: a second pass over the rows the first pass returned corrects no gust.
C5_SecondPassNoGust ==
  pc = "detected2" => det.stats.wind_gust_outliers = 0

StrictlyAscending(rows) ==
  \A j \in 2..Len(rows) : rows[j - 1].Time.v < rows[j].Time.v

\* C6: for a batch with ascending timestamps, a second pass over the rows
\* the first pass returned flags no accumulation outlier.
C6_SecondPassNoAccum ==
  (pc = "detected2" /\ AllParse(ret1.rows) /\ StrictlyAscending(ret1.rows)) =>
    det.stats.precip_accum_outliers = 0

\* no row of the batch satisfies a gust detection rule
NoGustRule(rows) ==
  \A j \in 1..Len(rows) :
    RowParses(rows[j]) =>
      ~IsGustOutlier(rows, j - 1, parse_decimal(rows[j].Speed_kmh),
                     parse_decimal(rows[j].Gust_kmh))

EventsOf(fixes, type) == SelectSeq(fixes, LAMBDA e : e.type = type)

\* C7: when no row satisfies a gust detection rule, every returned row has
\* the gust cell of its input row, wind_gust_outliers is 0 and no wind_gust
\* event is recorded.
C7_NoRuleNoGustChange ==
  (FirstReturned /\ NoGustRule(ret1.rows)) =>
    /\ Len(ret1.fixed_rows) = Len(ret1.rows)
    /\ GustsOf(ret1.fixed_rows) = GustsOf(ret1.rows)
    /\ ret1.stats.wind_gust_outliers = 0
    /\ EventsOf(ret1.fixes, "wind_gust") = <<>>

\* a pass with detailed reporting over three rows, one of them a strong gust
\* that no rule flags
C7_Witness ==
  /\ pc = "detected"
  /\ NoGustRule(ret1.rows)
  /\ det.show_fixes
  /\ Len(ret1.rows) >= 3
  /\ \E j \in 1..Len(ret1.rows) :
       RowParses(ret1.rows[j]) /\ parse_decimal(ret1.rows[j].Gust_kmh) > 1500

\* C8: after every row of a pass, a row that was not flagged as an
\* accumulation outlier has the rate cell of its input row.
C8_RateOnlyOnOutliers ==
  \A j \in 1..Len(det.fixed_rows) :
    (j - 1) \notin det.accum_flagged =>
      det.fixed_rows[j].Precip_Rate_mm = det.rows[j].Precip_Rate_mm

\* a finished pass that recomputed the rate of a flagged row and kept the
\* rate of a row with a negative delta and of a row with no elapsed time
C8_Witness ==
  /\ pc = "detected"
  /\ det.accum_flagged # {}
  /\ \E j \in 1..Len(det.fixed_rows) :
       (j - 1) \in det.accum_flagged
       /\ det.fixed_rows[j].Precip_Rate_mm # det.rows[j].Precip_Rate_mm
  /\ AllParse(det.rows)
  /\ ResetsOf(Readings(det.rows)) # {} \/ RepeatedTime(det.rows)

\* the step is one iteration of the pass, on a row that parses, with a
\* previous row and positive elapsed time
TimedStep ==
  /\ pc \in {"detect", "detect2"}
  /\ det.i < Len(det.rows)
  /\ det'.i = det.i + 1
  /\ RowParses(det.rows[det.i + 1])
  /\ det.prev_accum_original # None
  /\ det.prev_time # None
  /\ det.rows[det.i + 1].Time.v - det.prev_time[1] > 0

StepDelta == det.rows[det.i + 1].Precip_Accum_mm.v - det.prev_accum_original[1]
StepMinutes == det.rows[det.i + 1].Time.v - det.prev_time[1]
AboveCeiling == StepDelta * 5 > 500 * StepMinutes
BreaksTrend(window) ==
  LET pos == PositiveDeltas(window)
  IN  StepDelta * Len(pos) > 6 * SumSeq(pos)

\* C9 as stated: the delta is flagged exactly when it exceeds the ceiling and
\* the window holds no positive delta or the delta exceeds 6 times their
\* average.
C9_FlaggedIffCeilingAndTrend ==
  [][TimedStep =>
       ((det.i \in det'.accum_flagged) <=>
          (AboveCeiling /\ (PositiveDeltas(det.recent_deltas) = <<>>
                            \/ BreaksTrend(det.recent_deltas))))]_vars

\* C9 amended: the delta is flagged exactly when it exceeds the ceiling and
\* the window holds fewer than 2 deltas, or no positive delta, or the delta
\* exceeds 6 times the average of the window's positive deltas.
C9_FlaggedIffCeilingAndHistory ==
  [][TimedStep =>
       ((det.i \in det'.accum_flagged) <=>
          (AboveCeiling /\ (Len(det.recent_deltas) < 2
                            \/ PositiveDeltas(det.recent_deltas) = <<>>
                            \/ BreaksTrend(det.recent_deltas))))]_vars

\* the row just processed was flagged with one positive delta in the window
\* that the delta does not exceed 6 times
C9_Witness ==
  /\ pc \in {"detect", "detect2"}
  /\ det.i >= 2
  /\ (det.i - 1) \in det.accum_flagged
  /\ Len(det.recent_deltas) = 1
  /\ det.recent_deltas[1] > 0
  /\ RowParses(det.rows[det.i]) /\ RowParses(det.rows[det.i - 1])
  /\ det.rows[det.i].Precip_Accum_mm.v - det.rows[det.i - 1].Precip_Accum_mm.v
       <= 6 * det.recent_deltas[1]

\* the window held two deltas and the 6-times test cleared a delta above the
\* ceiling
C9_TrendDecides ==
  /\ pc \in {"detect", "detect2"}
  /\ det.i >= 2
  /\ (det.i - 1) \notin det.accum_flagged
  /\ Len(det.recent_deltas) >= 3
  /\ det.recent_deltas[Len(det.recent_deltas)] > 500
  /\ det.rows[det.i].Time.v - det.rows[det.i - 1].Time.v = 5

\* ========================================================================
\* Claims about reconstruct_daily_rain (SpecRain)
\* ========================================================================
\* a run of the job whose queries were answered
AnsweredRun == rain'.runs = rain.runs + 1 /\ rain'.outcome # "failed"

\* no adjacent pair whose later value is more than 0.5 mm below the earlier
NoDropBeyondTolerance(series) ==
  \A j \in 2..Len(series) : series[j - 1].v - series[j].v <= 50

\* C10: a run over a rain-today series with no drop of more than 0.5 mm
\* between adjacent points writes nothing and returns success, at every run.
C10_NoRestartNoWrite ==
  [][(AnsweredRun /\ NoDropBeyondTolerance(rain.daily_rain_current)) =>
       /\ rain'.result = Some(TRUE)
       /\ rain'.writes = rain.writes
       /\ rain'.daily_rain_current = rain.daily_rain_current
       /\ rain'.rain_mm = rain.rain_mm
       /\ rain'.precipitation_rate_mm_h = rain.precipitation_rate_mm_h]_vars

\* the job ran twice over a three-point series that dips by no more than the
\* tolerance, found no restart and wrote nothing
C10_Witness ==
  /\ pc = "rain"
  /\ rain.runs = 2
  /\ rain.outcome = "no_restart"
  /\ rain.writes = 0
  /\ Len(rain.daily_rain_current) = 3
  /\ Len(rain.rain_mm) >= 2
  /\ \E j \in 2..3 : rain.daily_rain_current[j].v < rain.daily_rain_current[j - 1].v

\* a run of the job that found a restart and rebuilt the day
RebuildRun == rain'.runs = rain.runs + 1 /\ rain'.outcome = "rebuilt"

\* sample m of the series is nearest in time to t, and the earliest such
NearestEarliest(series, t, m) ==
  /\ \A q \in 1..Len(series) : Abs(t - series[m].time) <= Abs(t - series[q].time)
  /\ \A q \in 1..(m - 1) : Abs(t - series[q].time) > Abs(t - series[m].time)

\* C11: a run over series of at least two points each, with a drop of more
\* than 0.5 mm in rain-today, rebuilds the day in one write: the rain-today
\* series keeps its timestamps and every point, before or after the drop,
\* gets max(0, g - b), b the first ground-truth value and g the value of the
\* earliest ground-truth sample nearest in time.
C11_RebuildsEveryPoint ==
  [][(/\ AnsweredRun
      /\ Len(rain.daily_rain_current) >= 2
      /\ Len(rain.rain_mm) >= 2
      /\ ~NoDropBeyondTolerance(rain.daily_rain_current)) =>
       /\ RebuildRun
       /\ rain'.writes = rain.writes + 1
       /\ rain'.rain_mm = rain.rain_mm
       /\ Len(rain'.daily_rain_current) = Len(rain.daily_rain_current)
       /\ \A k \in 1..Len(rain.daily_rain_current) :
            /\ rain'.daily_rain_current[k].time = rain.daily_rain_current[k].time
            /\ \E m \in 1..Len(rain.rain_mm) :
                 /\ NearestEarliest(rain.rain_mm, rain.daily_rain_current[k].time, m)
                 /\ rain'.daily_rain_current[k].v =
                      IF rain.rain_mm[m].v >= rain.rain_mm[1].v
                      THEN rain.rain_mm[m].v - rain.rain_mm[1].v ELSE 0]_vars

\* a rebuilt day of three points in which one point lies midway between two
\* ground-truth samples of different value and took the earlier one, and
\* another point carries a positive rebuilt value
C11_Witness ==
  /\ pc = "rain"
  /\ rain.outcome = "rebuilt"
  /\ rain.writes = 1
  /\ Len(rain.daily_rain_current) = 3
  /\ \E k \in 1..3 : \E m1, m2 \in 1..Len(rain.rain_mm) :
       /\ m1 < m2
       /\ NearestEarliest(rain.rain_mm, rain.daily_rain_current[k].time, m1)
       /\ Abs(rain.daily_rain_current[k].time - rain.rain_mm[m2].time)
            = Abs(rain.daily_rain_current[k].time - rain.rain_mm[m1].time)
       /\ rain.rain_mm[m2].v > rain.rain_mm[m1].v
       /\ rain.daily_rain_current[k].v = 0
  /\ \E k \in 1..3 : rain.daily_rain_current[k].v > 0

\* the timestamps of the stored rate points
RateTimes == {rain.precipitation_rate_mm_h[k].time :
                k \in 1..Len(rain.precipitation_rate_mm_h)}

DailyTimes == {rain.daily_rain_current[k].time : k \in 1..Len(rain.daily_rain_current)}

\* C12 as stated: after a rebuild every rate point sits on a processed point
\* that is at least 300 seconds later than the processed point before it.
C12_RateOnlyAfterLongStep ==
  rain.outcome = "rebuilt" =>
    \A k \in 1..Len(rain.daily_rain_current) :
      rain.daily_rain_current[k].time \in RateTimes =>
        /\ k > 1
        /\ rain.daily_rain_current[k].time - rain.daily_rain_current[k - 1].time >= 300

\* the start of the window that ends at time t: the latest rate point before
\* t, or the first processed point of the day when there is none
WindowStart(t) ==
  LET starts == {e \in RateTimes \cup {rain.daily_rain_current[1].time} : e < t}
  IN  CHOOSE e \in starts : \A x \in starts : x <= e

\* C12: after a rebuild the rate points sit exactly on the processed points
\* that are the first to lie at least 300 seconds after the start of their
\* window, the window starting at the first processed point of the day and
\* again at every rate point.
C12_RateAtWindowEnds ==
  rain.outcome = "rebuilt" =>
    /\ RateTimes \subseteq DailyTimes \ {rain.daily_rain_current[1].time}
    /\ \A t \in DailyTimes \ {rain.daily_rain_current[1].time} :
         t \in RateTimes <=> t - WindowStart(t) >= 300

\* a rebuilt day sampled at steps shorter than 300 seconds that has a rate
\* point
C12_Witness ==
  /\ pc = "rain"
  /\ rain.outcome = "rebuilt"
  /\ Len(rain.daily_rain_current) = 3
  /\ \A k \in 2..3 :
       rain.daily_rain_current[k].time - rain.daily_rain_current[k - 1].time < 300
  /\ RateTimes # {}

\* C13: a run over a rain-today or ground-truth series of fewer than two
\* points returns success, writes nothing and leaves the stored series as
\* they were, whatever drops the rain-today series holds.
C13_TooFewPointsNoWrite ==
  [][(AnsweredRun /\ (Len(rain.daily_rain_current) < 2 \/ Len(rain.rain_mm) < 2)) =>
       /\ rain'.result = Some(TRUE)
       /\ rain'.outcome \in {"missing", "not_enough"}
       /\ rain'.writes = rain.writes
       /\ rain'.daily_rain_current = rain.daily_rain_current
       /\ rain'.rain_mm = rain.rain_mm
       /\ rain'.precipitation_rate_mm_h = rain.precipitation_rate_mm_h]_vars

\* the job ran over a rain-today series with a drop beyond the tolerance and
\* a single ground-truth point, and wrote nothing
C13_Witness ==
  /\ pc = "rain"
  /\ rain.runs >= 1
  /\ rain.outcome = "not_enough"
  /\ rain.result = Some(TRUE)
  /\ rain.writes = 0
  /\ Len(rain.rain_mm) = 1
  /\ ~NoDropBeyondTolerance(rain.daily_rain_current)

\* ========================================================================
\* Claims about the correction events and the rows a pass returns (SpecDetect)
\* ========================================================================
PassReturned == pc \in {"detected", "detected2"}

CountOf(type) == Len(EventsOf(det.fixes, type))

\* the flagged rows whose reported rate differs from the recomputed one by
\* more than 0.1 mm/h
RateMoved ==
  {i \in det.accum_flagged :
     Abs(parse_decimal(det.rows[i + 1].Precip_Rate_mm)
         - parse_decimal(det.fixed_rows[i + 1].Precip_Rate_mm)) > 10}

\* the same batch passed with the other value of show_fixes
OtherReport == DetectAll(DetInit(det.rows, ~det.show_fixes))

SameWithoutReport ==
  /\ OtherReport.fixed_rows = det.fixed_rows
  /\ OtherReport.stats = det.stats

\* C14 as stated: with show_fixes set, a returned pass holds as many events
\* of each type as its counter says, and the rows and counters are those of
\* the pass without show_fixes.
C14_OneEventPerCount ==
  (PassReturned /\ det.show_fixes) =>
    /\ CountOf("wind_gust") = det.stats.wind_gust_outliers
    /\ CountOf("precip_accum") = det.stats.precip_accum_outliers
    /\ CountOf("precip_rate") = det.stats.precip_rate_recalculated
    /\ SameWithoutReport

\* C14: a returned pass with show_fixes set holds one wind_gust event per
\* counted gust outlier, one precip_accum event per counted accumulation
\* outlier, and one precip_rate event per recomputed rate that moved by more
\* than 0.1 mm/h; without show_fixes it holds no event; rows and counters
\* are the same either way.
C14_EventsPerCountAndMovedRate ==
  PassReturned =>
    /\ det.show_fixes =>
         /\ CountOf("wind_gust") = det.stats.wind_gust_outliers
         /\ CountOf("precip_accum") = det.stats.precip_accum_outliers
         /\ CountOf("precip_rate") = Cardinality(RateMoved)
         /\ CountOf("precip_rate") <= det.stats.precip_rate_recalculated
         /\ Len(det.fixes) = CountOf("wind_gust") + CountOf("precip_accum")
                             + CountOf("precip_rate")
    /\ ~det.show_fixes => det.fixes = <<>>
    /\ SameWithoutReport

\* a returned pass with show_fixes set that recomputed a reported rate of 0
\* to 0: the accumulation event is there, the rate event is not
C14_Witness ==
  /\ pc = "detected"
  /\ det.show_fixes
  /\ det.stats.precip_accum_outliers >= 1
  /\ CountOf("precip_accum") = det.stats.precip_accum_outliers
  /\ det.stats.precip_rate_recalculated >= 1
  /\ CountOf("precip_rate") = 0

\* a returned pass that recorded a rate event
C14_RateEventReached ==
  /\ pc = "detected"
  /\ det.show_fixes
  /\ CountOf("precip_rate") >= 1
  /\ CountOf("precip_rate") = det.stats.precip_rate_recalculated

\* the column an event of the given type reports on
ColumnOf(type) ==
  IF type = "wind_gust" THEN "Gust_kmh"
  ELSE IF type = "precip_accum" THEN "Precip_Accum_mm" ELSE "Precip_Rate_mm"

FlaggedFor(type) == IF type = "wind_gust" THEN det.gust_flagged ELSE det.accum_flagged

\* C15: every event recorded so far names, by row - 2, a 0-based position of
\* the input batch: the position lies in the batch, the row there was flagged
\* for the event's type, the event's original is the input value at that
\* position and its corrected value the output value there.
C15_EventRowIsInputPosition ==
  \A k \in 1..Len(det.fixes) :
    LET e == det.fixes[k]
        i == e.row - 2
    IN  /\ 2 <= e.row /\ e.row <= Len(det.rows) + 1
        /\ i < det.i
        /\ i \in FlaggedFor(e.type)
        /\ RowParses(det.rows[i + 1])
        /\ e.original = parse_decimal(det.rows[i + 1][ColumnOf(e.type)])
        /\ e.corrected = parse_decimal(det.fixed_rows[i + 1][ColumnOf(e.type)])
        /\ det.fixed_rows[i + 1][ColumnOf(e.type)] # det.rows[i + 1][ColumnOf(e.type)]

\* a returned pass with an event on the last of three rows, after a row that
\* did not parse and was passed through
C15_Witness ==
  /\ pc = "detected"
  /\ Len(det.rows) = 3
  /\ \E k \in 1..Len(det.fixes) : det.fixes[k].row = 4
  /\ \E j \in 1..2 : ~RowParses(det.rows[j]) /\ det.fixed_rows[j] = det.rows[j]

\* ========================================================================
\* Claims about import_csv (SpecImport)
\* ========================================================================
\* C16 as stated: no row aborts a pass; each pass has emitted one row per
\* row read, the unparsable ones unchanged; and the data points are the
\* rows that parsed in the passes.
C16_UnparsableRowNeverAborts ==
  /\ pc \notin {"convert_raised", "detect_raised"}
  /\ Len(conv.converted_rows) = conv.k - 1
  /\ \A j \in 1..Len(conv.converted_rows) :
       ~Parsable(conv.rows[j].Precip_Accum_mm) => conv.converted_rows[j] = conv.rows[j]
  /\ Len(det.fixed_rows) = det.i
  /\ \A j \in 1..Len(det.fixed_rows) :
       ~RowParses(det.rows[j]) => det.fixed_rows[j] = det.rows[j]
  /\ pc \in {"parsed", "writing", "done", "write_raised"} =>
       TimesOf(imp.data_points) =
         {parse_timestamp(det.rows[j].Time) :
            j \in {q \in 1..Len(det.rows) : RowParses(det.rows[q])}}

\* the import wrote, or would have written, after a query that was made
Filtered == pc \in {"writing", "done", "write_raised"} /\ imp.data_points # <<>>

\* the timestamps of the sink, as import_csv met it, in the range of the batch
InRange ==
  {t \in imp.sink0 : \E a, b \in TimesOf(imp.data_points) : a <= t /\ t <= b}

ExistingSet ==
  IF ~imp.overwrite /\ imp.query = "ok" THEN InRange ELSE {}

\* C17: the points to write are the parsed points whose timestamp is not in
\* the existing set, in order; an import that returns without dry_run has
\* written exactly these; with a working query in skip-existing mode none of
\* them has a timestamp the sink held; a failed query leaves the import
\* running.
C17_WritesParsedMinusExisting ==
  /\ Filtered =>
       /\ imp.new_data_points =
            SelectSeq(imp.data_points, LAMBDA dp : dp.time \notin ExistingSet)
       /\ (~imp.overwrite /\ imp.query = "ok") =>
            TimesOf(imp.new_data_points) \cap imp.sink0 = {}
       /\ imp.overwrite => imp.query = "none"
       /\ \E n \in 0..Len(imp.new_data_points) :
            imp.written = SubSeq(imp.new_data_points, 1, n)
  /\ (pc = "done" /\ imp.data_points # <<>>) =>
       imp.written = IF imp.dry_run THEN <<>> ELSE imp.new_data_points

\* an import in skip-existing mode whose query worked, that skipped a point
\* the sink held and wrote the other two in two batches
C17_Witness ==
  /\ pc = "done"
  /\ ~imp.overwrite /\ ~imp.dry_run
  /\ imp.query = "ok"
  /\ Len(imp.data_points) = 3
  /\ Len(imp.written) = 2
  /\ TimesOf(imp.data_points) \cap imp.sink0 # {}

\* an import whose existence query failed and that wrote every parsed point,
\* one of them at a timestamp the sink held
C17_FailedQueryReached ==
  /\ pc = "done"
  /\ imp.query = "failed"
  /\ ~imp.dry_run
  /\ imp.written = imp.data_points
  /\ TimesOf(imp.written) \cap imp.sink0 # {}

\* C18: a write that raises ends import_csv: no step follows it; at that
\* point the points written are those of the batches before the failing
\* one, in order, none of a later batch, and all of them are in the sink.
C18_WriteFailureKeepsEarlierBatches ==
  [][/\ pc # "write_raised"
     /\ pc' = "write_raised" =>
          /\ pc = "writing"
          /\ imp' = imp
          /\ imp.i < Len(imp.new_data_points)
          /\ imp.i % batch_size = 0
          /\ imp.written = SubSeq(imp.new_data_points, 1, imp.i)
          /\ imp.sink = imp.sink0 \cup TimesOf(imp.written)
          /\ \A k \in (imp.i + 1)..Len(imp.new_data_points) :
               imp.new_data_points[k].time \in imp.sink =>
                 imp.new_data_points[k].time \in imp.sink0]_vars

\* the write of the second batch raised after the first batch of two points
\* was written to a sink that held neither
C18_Witness ==
  /\ pc = "write_raised"
  /\ imp.i = batch_size
  /\ Len(imp.written) = batch_size
  /\ Len(imp.new_data_points) > batch_size
  /\ TimesOf(imp.written) \cap imp.sink0 = {}
  /\ TimesOf(imp.written) \subseteq imp.sink

\* ========================================================================
\* Claims about the rows the passes return (Spec) and the replacement of a
\* flagged gust (SpecDetect)
\* ========================================================================
\* the columns of a and b other than those in cols are equal
SameExcept(a, b, cols) ==
  /\ DOMAIN a = DOMAIN b
  /\ \A f \in DOMAIN a \ cols : a[f] = b[f]

\* C19: at every step the input rows of both passes stay as they were, every
\* converted row has the columns of its input row and differs from it at
\* most in Precip_Accum_mm, and every row of the outlier pass has the columns
\* of its input row and differs from it at most in Gust_kmh, Precip_Accum_mm
\* and Precip_Rate_mm.
C19_OnlyNamedColumnsChange ==
  [][/\ conv'.rows = conv.rows
     /\ pc = "detect" => det'.rows = det.rows
     /\ Len(conv'.converted_rows) <= Len(conv'.rows)
     /\ \A j \in 1..Len(conv'.converted_rows) :
          SameExcept(conv'.converted_rows[j], conv'.rows[j], {"Precip_Accum_mm"})
     /\ Len(det'.fixed_rows) <= Len(det'.rows)
     /\ \A j \in 1..Len(det'.fixed_rows) :
          SameExcept(det'.fixed_rows[j], det'.rows[j],
                     {"Gust_kmh", "Precip_Accum_mm", "Precip_Rate_mm"})]_vars

\* an import whose conversion rewrote an accumulation after a reset and whose
\* outlier pass then rewrote accumulation and rate of a flagged row
C19_Witness ==
  /\ pc = "detected"
  /\ \E j \in 1..Len(conv.rows) :
       /\ Parsable(conv.rows[j].Precip_Accum_mm)
       /\ conv.converted_rows[j].Precip_Accum_mm.v # conv.rows[j].Precip_Accum_mm.v
  /\ \E j \in 1..Len(det.rows) :
       /\ det.fixed_rows[j].Precip_Rate_mm # det.rows[j].Precip_Rate_mm
       /\ det.fixed_rows[j].Precip_Accum_mm.v # det.rows[j].Precip_Accum_mm.v

\* the positions (1-based) of the calm gusts among the up to 10 output rows
\* before the row at 0-based position i
CalmBehind(i) ==
  {j \in 1..i : j >= i - 9 /\ IsCalmCell(det.fixed_rows[j].Gust_kmh)}

\* the up to 5 of them nearest to the row
NearestFive(i) ==
  {j \in CalmBehind(i) : Cardinality({q \in CalmBehind(i) : q > j}) < 5}

RECURSIVE GustSum(_)
GustSum(J) ==
  IF J = {} THEN 0
  ELSE LET j == CHOOSE x \in J : TRUE
       IN  parse_decimal(det.fixed_rows[j].Gust_kmh) + GustSum(J \ {j})

\* C20: the output gust of every flagged row is the mean, rounded to two
\* decimals, of the up to 5 nearest calm output gusts among the up to 10
\* output rows before it, and the row's average wind speed when there is
\* none.
C20_MeanOfNearestCalmOutputs ==
  \A i \in det.gust_flagged :
    parse_decimal(det.fixed_rows[i + 1].Gust_kmh) =
      IF CalmBehind(i) = {}
      THEN parse_decimal(det.rows[i + 1].Speed_kmh)
      ELSE Round2(GustSum(NearestFive(i)), Cardinality(NearestFive(i)))

\* a flagged gust with six calm output gusts behind it, replaced by the mean
\* of the nearest five, which is not the mean of the six
C20_Witness ==
  /\ pc = "detected"
  /\ \E i \in det.gust_flagged :
       /\ Cardinality(CalmBehind(i)) = 6
       /\ Cardinality(NearestFive(i)) = 5
       /\ Round2(GustSum(CalmBehind(i)), 6) # Round2(GustSum(NearestFive(i)), 5)

\* a flagged gust replaced by the average wind speed although a calm gust
\* lies more than 10 rows behind it
C20_WindowReached ==
  /\ pc = "detected"
  /\ \E i \in det.gust_flagged :
       /\ CalmBehind(i) = {}
       /\ \E j \in 1..i : IsCalmCell(det.fixed_rows[j].Gust_kmh)

\* a flagged gust whose mean takes in an earlier flagged gust at its
\* corrected value
C20_CorrectedCounts ==
  /\ pc = "detected"
  /\ \E i \in det.gust_flagged : \E j \in NearestFive(i) :
       /\ (j - 1) \in det.gust_flagged
       /\ \E q \in NearestFive(i) :
            det.fixed_rows[q].Gust_kmh.v # det.fixed_rows[j].Gust_kmh.v

\* ========================================================================
\* Claims about the precipitation correction, row by row (SpecDetect)
\* ========================================================================
\* the row of the step, and what the step left for it
StepRow == det.rows[det.i + 1]
StepOut == det'.fixed_rows[det.i + 1]
StepFlagged == det.i \in det'.accum_flagged

\* C21: a step that flags the row outputs the previous corrected accumulation
\* for it, keeps that value as the previous corrected accumulation and leaves
\* the trend window as it was; so a row flagged right after a flagged row
\* meets the window its predecessor met.
C21_FlaggedRowKeepsLevelAndWindow ==
  [][(TimedStep /\ StepFlagged) =>
       /\ parse_decimal(StepOut.Precip_Accum_mm) = det.prev_accum_corrected[1]
       /\ det'.prev_accum_corrected = det.prev_accum_corrected
       /\ det'.recent_deltas = det.recent_deltas
       /\ det'.stats.precip_accum_outliers = det.stats.precip_accum_outliers + 1]_vars

\* two rows in a row were flagged against a window that holds rain, and the
\* second is output at the level before the first
C21_Witness ==
  /\ pc \in {"detect", "detected"}
  /\ \E i \in det.accum_flagged :
       /\ i + 1 \in det.accum_flagged
       /\ i + 2 = det.i
       /\ PositiveDeltas(det.recent_deltas) # <<>>
       /\ det.fixed_rows[i + 2].Precip_Accum_mm.v = det.fixed_rows[i].Precip_Accum_mm.v
       /\ det.rows[i + 2].Precip_Accum_mm.v > det.rows[i + 1].Precip_Accum_mm.v

\* the window with one more delta, the oldest dropped when it held 5
Pushed(window, d) ==
  IF Len(window) < 5 THEN Append(window, d)
  ELSE [k \in 1..5 |-> IF k < 5 THEN window[k + 1] ELSE d]

\* C22: the window never holds more than 5 deltas; a step on a row with a
\* previous row and positive elapsed time that does not flag it outputs, for
\* a delta >= 0, the previous corrected accumulation plus the delta and
\* pushes the delta into the window, and for a delta < 0 the row's own value
\* and an empty window.
C22_UnflaggedRowFollowsDelta ==
  [][/\ Len(det'.recent_deltas) <= 5
     /\ (TimedStep /\ ~StepFlagged /\ StepDelta >= 0) =>
          /\ parse_decimal(StepOut.Precip_Accum_mm) = det.prev_accum_corrected[1] + StepDelta
          /\ det'.recent_deltas = Pushed(det.recent_deltas, StepDelta)
     /\ (TimedStep /\ StepDelta < 0) =>
          /\ ~StepFlagged
          /\ parse_decimal(StepOut.Precip_Accum_mm) = parse_decimal(StepRow.Precip_Accum_mm)
          /\ det'.recent_deltas = <<>>]_vars

\* the window is full after its oldest delta, unlike the others, was dropped;
\* no row was flagged and the seventh row is output at its own value
C22_Witness ==
  /\ pc = "detect"
  /\ det.i >= 7
  /\ Len(det.recent_deltas) = 5
  /\ det.rows[2].Precip_Accum_mm.v - det.rows[1].Precip_Accum_mm.v # det.recent_deltas[1]
  /\ det.accum_flagged = {}
  /\ det.fixed_rows[7].Precip_Accum_mm.v = det.rows[7].Precip_Accum_mm.v

\* a batch in which a negative delta emptied a window that held rain
C22_ResetReached ==
  /\ pc = "detect"
  /\ det.i >= 3
  /\ det.recent_deltas = <<>>
  /\ det.rows[det.i].Precip_Accum_mm.v < det.rows[det.i - 1].Precip_Accum_mm.v
  /\ det.rows[det.i - 1].Precip_Accum_mm.v > det.rows[det.i - 2].Precip_Accum_mm.v
  /\ AllParse(det.rows)
  /\ StrictlyAscending(det.rows)

\* the step is one iteration of the pass, on a row that parses and whose
\* timestamp is not later than that of the previous parsed row
UntimedStep ==
  /\ pc \in {"detect", "detect2"}
  /\ det.i < Len(det.rows)
  /\ det'.i = det.i + 1
  /\ RowParses(det.rows[det.i + 1])
  /\ det.prev_time # None
  /\ det.rows[det.i + 1].Time.v <= det.prev_time[1]

\* C23: a step on a row whose timestamp is not later than the previous
\* parsed row's outputs its accumulation and rate cells unchanged, counts no
\* precipitation correction, leaves the window as it was and moves the three
\* trackers to the row.
C23_UntimedRowPassesThrough ==
  [][UntimedStep =>
       /\ StepOut.Precip_Accum_mm = StepRow.Precip_Accum_mm
       /\ StepOut.Precip_Rate_mm = StepRow.Precip_Rate_mm
       /\ det'.stats.precip_accum_outliers = det.stats.precip_accum_outliers
       /\ det'.stats.precip_rate_recalculated = det.stats.precip_rate_recalculated
       /\ ~StepFlagged
       /\ det'.recent_deltas = det.recent_deltas
       /\ det'.prev_accum_original = Some(parse_decimal(StepRow.Precip_Accum_mm))
       /\ det'.prev_accum_corrected = Some(parse_decimal(StepRow.Precip_Accum_mm))
       /\ det'.prev_time = Some(parse_timestamp(StepRow.Time))]_vars

\* a row with the timestamp of the row before it, whose accumulation is far
\* above the ceiling, was passed through against a window that holds rain
C23_Witness ==
  /\ pc = "detect"
  /\ det.i >= 2
  /\ RowParses(det.rows[det.i]) /\ RowParses(det.rows[det.i - 1])
  /\ det.rows[det.i].Time.v = det.rows[det.i - 1].Time.v
  /\ det.rows[det.i].Precip_Accum_mm.v - det.rows[det.i - 1].Precip_Accum_mm.v > 2000
  /\ det.fixed_rows[det.i].Precip_Accum_mm = det.rows[det.i].Precip_Accum_mm
  /\ det.recent_deltas # <<>>
  /\ det.prev_accum_corrected = Some(det.rows[det.i].Precip_Accum_mm.v)

\* a row with a timestamp before that of the row before it was passed through
C23_EarlierReached ==
  /\ pc = "detect"
  /\ det.i >= 2
  /\ RowParses(det.rows[det.i]) /\ RowParses(det.rows[det.i - 1])
  /\ det.rows[det.i].Time.v < det.rows[det.i - 1].Time.v
  /\ det.prev_time = Some(det.rows[det.i].Time.v)

\* ========================================================================
\* Claims about the rates of a rebuilt day (SpecRain)
\* ========================================================================
\* the stored rain-today value at time t
DailyAt(t) ==
  LET k == CHOOSE j \in 1..Len(rain.daily_rain_current) :
             rain.daily_rain_current[j].time = t
  IN  rain.daily_rain_current[k].v

\* C24: every stored rate is >= 0 and sits on a processed point other than
\* the first of the day; over its window of w seconds it is d / w * 3600 for
\* a delta d >= 0 of the rebuilt rain-today values and 0 for a delta < 0
\* (a stored rate is num / den mm/h, d in hundredths of a mm).
C24_RatesNeverNegative ==
  \A k \in 1..Len(rain.precipitation_rate_mm_h) :
    LET p == rain.precipitation_rate_mm_h[k]
        s == WindowStart(p.time)
        d == DailyAt(p.time) - DailyAt(s)
    IN  /\ p.num >= 0
        /\ p.time \in DailyTimes \ {rain.daily_rain_current[1].time}
        /\ p.den = (p.time - s) * 100
        /\ p.num = IF d >= 0 THEN d * 3600 ELSE 0

\* a rebuilt day whose ground truth falls during the day: one rate is
\* positive, the rate over the fall is 0
C24_Witness ==
  /\ pc = "rain"
  /\ rain.outcome = "rebuilt"
  /\ \E j \in 2..Len(rain.rain_mm) : rain.rain_mm[j].v < rain.rain_mm[j - 1].v
  /\ Len(rain.precipitation_rate_mm_h) = 2
  /\ rain.precipitation_rate_mm_h[1].num > 0
  /\ rain.precipitation_rate_mm_h[2].num = 0
  /\ DailyAt(rain.precipitation_rate_mm_h[2].time)
       < DailyAt(rain.precipitation_rate_mm_h[1].time)

\* ========================================================================
\* Claims about the order of import_csv (SpecImport)
\* ========================================================================
\* the step writes points to the sink
WriteStep == imp'.written # imp.written

\* C25: a step that writes points is taken after the conversion has gone
\* through every row and the outlier pass, run on the converted rows, has
\* gone through every row and returned; once points are written no row of
\* either pass changes; and a dry run, or an import in which no row parses
\* into a point, writes nothing and leaves the sink as it met it.
C25_WritesFollowBothPasses ==
  [][/\ WriteStep =>
          /\ pc = "writing"
          /\ Len(conv.converted_rows) = Len(conv.rows)
          /\ det.rows = conv.converted_rows
          /\ det.i = Len(det.rows)
          /\ Len(det.fixed_rows) = Len(det.rows)
          /\ ret1.fixed_rows = det.fixed_rows
          /\ imp.data_points = DataPoints(ret1.fixed_rows)
     /\ (WriteStep \/ imp.written # <<>>) => UNCHANGED <<conv, det, ret1>>
     /\ (imp'.dry_run \/ imp'.data_points = <<>>) =>
          /\ imp'.written = <<>>
          /\ imp'.total_written = 0
          /\ imp'.sink = imp'.sink0]_vars

\* an import wrote three points in two calls, after the outlier pass had
\* flagged a row, and the point of that row carries the corrected value
C25_Witness ==
  /\ pc = "done"
  /\ Len(imp.written) = 3
  /\ imp.total_written = 3
  /\ \E i \in ret1.accum_flagged :
       /\ imp.written[i + 1].rain_mm = ret1.fixed_rows[i + 1].Precip_Accum_mm.v
       /\ imp.written[i + 1].rain_mm < ret1.rows[i + 1].Precip_Accum_mm.v

\* a dry run that had points to import returned without a write
C25_DryRunReached ==
  /\ pc = "done"
  /\ imp.dry_run
  /\ imp.new_data_points # <<>>
  /\ imp.written = <<>>
  /\ imp.sink = imp.sink0

\* an import in which no row parsed into a point returned without a write
C25_NoPointReached ==
  /\ pc = "done"
  /\ Len(ret1.fixed_rows) >= 1
  /\ imp.data_points = <<>>
  /\ imp.written = <<>>

\* ========================================================================
\* Claims about the gap between input and corrected accumulation (SpecDetect)
\* ========================================================================
\* the accumulation row j came in with
RawAccum(j) == parse_decimal(det.rows[j].Precip_Accum_mm)

\* row j has a parsed row before it; the nearest such row
HasParsedBefore(j) == \E q \in 1..(j - 1) : RowParses(det.rows[q])
ParsedBefore(j) ==
  LET P == {q \in 1..(j - 1) : RowParses(det.rows[q])}
  IN  CHOOSE q \in P : \A r \in P : r <= q

RawDelta(j) == RawAccum(j) - RawAccum(ParsedBefore(j))

\* row j restarts the corrected series at its own value: it is the first
\* parsed row, its raw delta is negative or its elapsed time is not positive
Restarts(j) ==
  /\ RowParses(det.rows[j])
  /\ \/ ~HasParsedBefore(j)
     \/ RawDelta(j) < 0
     \/ parse_timestamp(det.rows[j].Time) <= parse_timestamp(det.rows[ParsedBefore(j)].Time)

\* the spike deltas zeroed at the rows up to k whose positions are in
\* flagged, since the last row up to k that restarted the series
ZeroedSince(k, flagged) ==
  LET R == {j \in 1..k : Restarts(j)}
      last == CHOOSE j \in R : \A r \in R : r <= j
  IN  SumSeq([j \in 1..k |->
                IF j > last /\ (j - 1) \in flagged THEN RawDelta(j) ELSE 0])

\* C26: every row of a pass leaves the rows output before it as they are,
\* and a parsed row is output with an accumulation that is not above the one
\* it came in with, the difference being the sum of the raw deltas of the
\* rows flagged since the last row with a negative delta or without positive
\* elapsed time.
C26_CorrectionsOnlyRemove ==
  [][det'.i = det.i + 1 =>
       /\ SubSeq(det'.fixed_rows, 1, det.i) = det.fixed_rows
       /\ RowParses(StepRow) =>
            /\ parse_decimal(StepOut.Precip_Accum_mm) <= RawAccum(det.i + 1)
            /\ RawAccum(det.i + 1) - parse_decimal(StepOut.Precip_Accum_mm)
                 = ZeroedSince(det.i + 1, det'.accum_flagged)]_vars

\* two spikes were zeroed and rain fell after them: the last row is output
\* below its input by the sum of the two spike deltas
C26_Witness ==
  /\ pc = "detect"
  /\ det.i >= 3
  /\ {det.i - 3, det.i - 2} \subseteq det.accum_flagged
  /\ det.i - 1 \notin det.accum_flagged
  /\ RawAccum(det.i) > RawAccum(det.i - 1)
  /\ RawAccum(det.i) - parse_decimal(det.fixed_rows[det.i].Precip_Accum_mm)
       = RawDelta(det.i - 1) + RawDelta(det.i - 2)
  /\ RawDelta(det.i - 1) > 0 /\ RawDelta(det.i - 2) > 0

\* a row with a negative delta after a zeroed spike is output at its input
\* value: the gap is 0 again
C26_GapClosedReached ==
  /\ pc = "detect"
  /\ det.i >= 3
  /\ det.i - 2 \in det.accum_flagged
  /\ AllParse(det.rows)
  /\ RawDelta(det.i) < 0
  /\ det.fixed_rows[det.i - 1].Precip_Accum_mm.v < RawAccum(det.i - 1)
  /\ det.fixed_rows[det.i].Precip_Accum_mm.v = RawAccum(det.i)

\* ========================================================================
\* Claims about the direction of a gust correction (SpecDetect)
\* ========================================================================
\* the gust and the average wind the row at 0-based position i came in with
GustIn(i) == parse_decimal(det.rows[i + 1].Gust_kmh)
SpeedIn(i) == parse_decimal(det.rows[i + 1].Speed_kmh)

\* the row is over 80 km/h with an average wind below 1 km/h or below a
\* tenth of the gust
OverCeiling(i) ==
  /\ GustIn(i) > 8000
  /\ (SpeedIn(i) < 100 \/ GustIn(i) > SpeedIn(i) * 10)

\* C27: after every row of a pass, each row flagged as a gust outlier is
\* output with a gust below the one it came in with, and a flagged row with
\* no calm output gust among the 10 rows before it, which takes the average
\* wind, is a row the ceiling rule flags.
C27_GustCorrectionLowers ==
  \A i \in det.gust_flagged :
    /\ parse_decimal(det.fixed_rows[i + 1].Gust_kmh) < GustIn(i)
    /\ CalmBehind(i) = {} => OverCeiling(i)

\* a gust the ceiling rule does not flag was flagged as a spike between calm
\* neighbours and is output at a lower, calm value
C27_Witness ==
  /\ pc = "detect"
  /\ \E i \in det.gust_flagged :
       /\ ~OverCeiling(i)
       /\ CalmBehind(i) # {}
       /\ parse_decimal(det.fixed_rows[i + 1].Gust_kmh) < 1000
       /\ GustIn(i) > 1500

\* a gust over the ceiling with no calm gust behind it was output at the
\* average wind of its row, which is lower
C27_FallbackReached ==
  /\ pc = "detect"
  /\ \E i \in det.gust_flagged :
       /\ OverCeiling(i)
       /\ i >= 1
       /\ CalmBehind(i) = {}
       /\ parse_decimal(det.fixed_rows[i + 1].Gust_kmh) = SpeedIn(i)
       /\ SpeedIn(i) < GustIn(i)

\* a gust over the ceiling in still air was output at its average wind, and
\* that output is the calm gust a later flagged row is replaced by
C27_StillAirReached ==
  /\ pc = "detect"
  /\ det.gust_flagged = {0, 2}
  /\ SpeedIn(0) < 100
  /\ parse_decimal(det.fixed_rows[1].Gust_kmh) = SpeedIn(0)
  /\ GustIn(2) <= SpeedIn(1) * 10
  /\ parse_decimal(det.fixed_rows[3].Gust_kmh) = SpeedIn(0)

\* ========================================================================
\* Claims about the recomputed rate (SpecDetect)
\* ========================================================================
\* C28: a step of the pass rewrites the rate cell or counts a recomputed
\* rate only on a row it flags, and on every row it flags it writes the
\* rate 0, below the clamp of 60 mm/h, and counts it; after every step the
\* two precipitation counters are equal.
C28_RecomputedRateIsZero ==
  [][det'.i = det.i + 1 =>
       /\ (\/ StepOut.Precip_Rate_mm # StepRow.Precip_Rate_mm
           \/ det'.stats.precip_rate_recalculated # det.stats.precip_rate_recalculated)
            => StepFlagged
       /\ StepFlagged =>
            /\ StepOut.Precip_Rate_mm = Str(0)
            /\ parse_decimal(StepOut.Precip_Rate_mm) < 6000
            /\ det'.stats.precip_rate_recalculated = det.stats.precip_rate_recalculated + 1
       /\ det'.stats.precip_rate_recalculated = det'.stats.precip_accum_outliers]_vars

\* a pass returned with two flagged rows and two recomputed rates; a flagged
\* row came in with a rate of 12 mm/h and is output with 0
C28_Witness ==
  /\ pc = "detected"
  /\ Cardinality(det.accum_flagged) = 2
  /\ det.stats.precip_rate_recalculated = 2
  /\ det.stats.precip_accum_outliers = 2
  /\ \E i \in det.accum_flagged :
       /\ parse_decimal(det.rows[i + 1].Precip_Rate_mm) = 1200
       /\ det.fixed_rows[i + 1].Precip_Rate_mm = Str(0)

\* ========================================================================
\* Claims about a rebuild from a ground truth that never falls (SpecRain)
\* ========================================================================
\* the ground truth is in time order and no value is below its predecessor
TruthNeverFalls ==
  \A j \in 2..Len(rain.rain_mm) :
    /\ rain.rain_mm[j - 1].time < rain.rain_mm[j].time
    /\ rain.rain_mm[j - 1].v <= rain.rain_mm[j].v

\* C29: with a ground truth in time order that never falls, a run that
\* rebuilds the day leaves a rain-today series whose values are >= 0 and
\* never fall, so without a drop of more than 0.5 mm; and every answered run
\* after a rebuild finds no restart, writes nothing and leaves the stored
\* series as they are.
C29_RebuiltDayIsStable ==
  [][TruthNeverFalls =>
       /\ RebuildRun =>
            /\ \A k \in 1..Len(rain'.daily_rain_current) :
                 rain'.daily_rain_current[k].v >= 0
            /\ \A k \in 2..Len(rain'.daily_rain_current) :
                 rain'.daily_rain_current[k - 1].v <= rain'.daily_rain_current[k].v
            /\ NoDropBeyondTolerance(rain'.daily_rain_current)
       /\ (AnsweredRun /\ rain.writes >= 1) =>
            /\ rain'.outcome = "no_restart"
            /\ rain'.writes = rain.writes
            /\ rain'.daily_rain_current = rain.daily_rain_current
            /\ rain'.precipitation_rate_mm_h = rain.precipitation_rate_mm_h]_vars

\* a day with a restart was rebuilt from a rising ground truth into a rising
\* series, and the run after it found no restart and wrote nothing
C29_Witness ==
  /\ pc = "rain"
  /\ TruthNeverFalls
  /\ rain.runs = 2
  /\ rain.writes = 1
  /\ rain.outcome = "no_restart"
  /\ Len(rain.daily_rain_current) = 3
  /\ rain.daily_rain_current[1].v < rain.daily_rain_current[2].v
  /\ rain.daily_rain_current[2].v < rain.daily_rain_current[3].v

\* a ground truth that falls during the day: the rebuilt series holds a drop
\* beyond the tolerance and the next run rebuilds it again
C29_FallingTruthReached ==
  /\ pc = "rain"
  /\ ~TruthNeverFalls
  /\ rain.runs = 2
  /\ rain.writes = 2
  /\ ~NoDropBeyondTolerance(rain.daily_rain_current)

\* ========================================================================
\* Claims about the running maximum of the conversion (SpecConvert)
\* ========================================================================
\* the readings just before the resets of the raw series, summed
BeforeResetsSum(raw) ==
  SumSeq([j \in 1..Len(raw) |-> IF j \in ResetsOf(raw) THEN raw[j - 1] ELSE 0])

\* C30: after every processed row, once a reading has parsed, daily_max is
\* the last parsed raw reading; the offset is the sum of the readings just
\* before the resets; and the emitted series steps by the raw reading at a
\* reset and by the difference of the raw readings at any other row.
C30_RunningMaxIsLastReading ==
  /\ conv.prev_accum # None =>
       /\ conv.prev_accum[1] = ConvRaw[Len(ConvRaw)]
       /\ conv.daily_max = conv.prev_accum[1]
  /\ conv.running_offset = BeforeResetsSum(ConvRaw)
  /\ \A j \in 2..Len(ConvRaw) :
       ConvOut[j] - ConvOut[j - 1] =
         IF ConvRaw[j] < ConvRaw[j - 1] THEN ConvRaw[j] ELSE ConvRaw[j] - ConvRaw[j - 1]

\* a finished conversion with a single reset after a day that rose, followed
\* by a rise: the offset is the reading just before the reset and daily_max
\* the last reading
C30_Witness ==
  /\ pc = "converted"
  /\ Cardinality(ResetsOf(ConvRaw)) = 1
  /\ \E r \in ResetsOf(ConvRaw) :
       /\ r >= 3 /\ r < Len(ConvRaw)
       /\ ConvRaw[r - 1] > ConvRaw[r - 2]
       /\ ConvRaw[r + 1] > ConvRaw[r]
       /\ conv.running_offset = ConvRaw[r - 1]
       /\ ConvOut[r] - ConvOut[r - 1] = ConvRaw[r]
  /\ conv.daily_max = ConvRaw[Len(ConvRaw)]

\* a conversion that skipped a row that does not parse between two readings
\* and stepped by their difference
C30_SkippedRowReached ==
  /\ pc = "converted"
  /\ Len(conv.rows) = 3
  /\ ~Parsable(conv.rows[2].Precip_Accum_mm)
  /\ Len(ConvRaw) = 2
  /\ ConvRaw[2] > ConvRaw[1]
  /\ ConvOut[2] - ConvOut[1] = ConvRaw[2] - ConvRaw[1]
  /\ conv.daily_max = ConvRaw[2]

====
